---- MODULE Spec2Model ----
(***************************************************************************)
(* A model of the pytorrent client: Block / Piece / PieceManager (request  *)
(* scheduling, reassembly, hash verification), PeerConnection (framing     *)
(* parser, in-flight accounting) and the TorrentClient event loop.         *)
(*                                                                         *)
(* Specifications:                                                         *)
(*   SpecPiece  the Piece / PieceManager API called in any order           *)
(*   SpecAvail  availability counting and rarest-first selection           *)
(*   SpecParse  one PeerConnection: recv_message / _parse_one over a byte  *)
(*              stream delivered in chunks                                 *)
(*   SpecPeer   one PeerConnection: send_request and whole messages        *)
(*   Spec       the TorrentClient engine (constructor + _event_loop)       *)
(*   SpecLengths  _calculate_pieces_lengths on any arguments               *)
(*   SpecRetry  PeerManager.connect_all and retry_failed_peers             *)
(*   SpecShutdown  the retry worker thread and TorrentClient.cleanup       *)
(*   SpecStore  PieceStorage: write, read, switch_to_seeding               *)
(*   SpecPause, SpecPauseFair  the engine with pause() and resume()        *)
(*   SpecBad    the engine with out-of-range have and piece messages       *)
(*   SpecBlock  block_received on any arguments                            *)
(*   SpecTick, SpecTickFair  requests, receipts, tick() and the clock      *)
(*   SpecUpload the engine with interested / request messages from peers   *)
(*   SpecParseFair  SpecParse with the socket read until it is drained     *)
(*   SpecReconnect, SpecReconnectFair  download() with the retry worker    *)
(*   SpecWriters  SpecReconnect with announce_now() in another thread      *)
(*   SpecAccount  PieceManager: next_block, block_received, tick, on_choke *)
(*   SpecTrackers  TrackerManager.get_all_peers over failing trackers      *)
(*   SpecLate   the engine with piece messages arriving at any moment      *)
(*   SpecRemove the engine with remove_torrent() run by a server thread    *)
(*   SpecProgress, SpecProgressFair  the engine with a cooperative peer    *)
(***************************************************************************)
EXTENDS Integers, Sequences, FiniteSets, TLC

(***************************************************************************)
(* Bounds of the model (torrent geometry, clock, counters).                *)
(***************************************************************************)
\* TorrentFile.total_length of the torrent under download
total_length == 3
\* TorrentFile.piece_length
piece_length == 2
\* the block_size argument of PieceManager.__init__
block_size == 1
\* the clock runs from 0 to MaxTime
MaxTime == 10
\* cap on an availability counter
MaxAvail == 2
\* cap on PieceManager.downloaded_bytes
MaxDownloaded == 3
\* the peers of the swarm are 1..NumPeers
NumPeers == 2
\* a stream under test holds up to MaxMsgs messages
MaxMsgs == 2
\* sock.recv returns up to MaxChunk bytes of a stream under test
MaxChunk == 3
\* the event loop handles up to MaxEvents socket events
MaxEvents == 3
\* the clock of the retry worker runs from 0 to MaxRetryTime
MaxRetryTime == 320
\* the trackers of the torrent are 1..NumTrackers
NumTrackers == 2
\* a tracker returns up to MaxTrackerPeers peers
MaxTrackerPeers == 2
\* _calculate_pieces_lengths is called on total lengths 1..MaxTotalLength
MaxTotalLength == 12
\* and on piece lengths 1..MaxPieceLength
MaxPieceLength == 6

(***************************************************************************)
(* Program constants.                                                      *)
(***************************************************************************)
REQUEST_TIMEOUT == 10
MAX_INFLIGHT == 40
\* Block.request_time = None
NoTime == -1
\* PeerManager.max_failures, PeerManager.base_retry_interval
max_failures == 5
base_retry_interval == 10
\* get_all_peers: "min_interval = 1800  # fallback interval"
fallback_interval == 1800
\* the clock advances in steps of the request timeout
TimeStep == REQUEST_TIMEOUT

(***************************************************************************)
(* Generic helpers.                                                        *)
(***************************************************************************)
Min(a, b) == IF a <= b THEN a ELSE b
Max(a, b) == IF a >= b THEN a ELSE b
SetMin(S) == CHOOSE x \in S : \A y \in S : x <= y

\* Python slice seq[lo:hi] (0-based, indices clamped to the length)
Slice(seq, lo, hi) ==
    LET l == Min(Max(lo, 0), Len(seq))
        h == Max(Min(Max(hi, 0), Len(seq)), l)
    IN  SubSeq(seq, l + 1, h)

\* Python slice assignment seq[lo:hi] = data
SliceAssign(seq, lo, hi, data) ==
    Slice(seq, 0, lo) \o data \o Slice(seq, Max(Min(hi, Len(seq)), Min(lo, Len(seq))), Len(seq))

Zeros(n) == [k \in 1..n |-> 0]

(***************************************************************************)
(* The torrent: content, piece lengths, hashes, block layout.              *)
(***************************************************************************)
\* the bytes of the torrent's content (what the hashes in the metainfo cover);
\* no byte is 0, so a freshly truncated .part file never verifies
Content == [k \in 1..total_length |-> 1 + (k % 2)]

\* hashlib.sha1(...).digest(): a collision-free digest of a byte string
SHA1(bytes) == <<"sha1", bytes>>

\* _calculate_pieces_lengths with "if remainder" left out
calculate_appending_remainder(total, plen) ==
    [k \in 1..(total \div plen) |-> plen] \o <<total % plen>>

\* piece_manager._calculate_pieces_lengths
calculate_pieces_lengths(total, plen) ==
    LET full == total \div plen
        remainder == total % plen
    IN  [k \in 1..full |-> plen] \o (IF remainder # 0 THEN <<remainder>> ELSE <<>>)

Lengths == calculate_pieces_lengths(total_length, piece_length)
NumPieces == Len(Lengths)
PieceIdx == 0..(NumPieces - 1)
PieceLen(i) == Lengths[i + 1]
\* the expected content of piece i and its hash in the metainfo
PieceContent(i) == Slice(Content, i * piece_length, i * piece_length + PieceLen(i))
Hash(i) == SHA1(PieceContent(i))

\* Piece.__init__: blocks at offsets range(0, length, block_size)
NumBlocks(i) == (PieceLen(i) + block_size - 1) \div block_size
BlockOffset(k) == (k - 1) * block_size
BlockLength(i, k) == Min(block_size, PieceLen(i) - BlockOffset(k))
\* a Block object is named by <<piece_index, position in Piece.blocks>>; <<>> is None
BlockRefs == UNION {{<<i, k>> : k \in 1..NumBlocks(i)} : i \in PieceIdx}
\* the correct data of block k of piece i
GoodData(i, k) == Slice(PieceContent(i), BlockOffset(k), BlockOffset(k) + BlockLength(i, k))

\* Block.__init__
NewBlock == [is_requested |-> FALSE, is_received |-> FALSE, request_time |-> NoTime]
\* Piece.__init__
NewPiece(i) == [is_complete |-> FALSE,
                blocks |-> [k \in 1..NumBlocks(i) |-> NewBlock],
                buffer |-> Zeros(PieceLen(i)),
                blocks_received |-> 0]

(***************************************************************************)
(* State.                                                                  *)
(***************************************************************************)
VARIABLES
    pieces,            \* PieceManager.pieces: index -> Piece
    availability,      \* PieceManager.availability: Counter index -> count
    inflight_by_peer,  \* PieceManager.inflight_by_peer: peer -> list of Blocks
    downloaded_bytes,  \* PieceManager.downloaded_bytes
    mmap,              \* PieceStorage._mmap: the bytes of the backing file
    read_only,         \* PieceStorage._read_only
    now,               \* time.time()
    sha1_ok,           \* history: pieces for which a SHA-1 comparison succeeded
    result             \* the last operation called and what it returned

pmvars == <<pieces, availability, inflight_by_peer, downloaded_bytes, mmap, read_only,
            now, sha1_ok, result>>

VARIABLES
    conns,             \* peer -> the fields of its PeerConnection
    wire,              \* bytes the remote end has written that recv has not yet returned
    stream,            \* history: every byte the remote end has written
    emitted,           \* history: the messages recv_message has returned
    partial_seen,      \* history: some recv_message call left a partial message buffered
    sent               \* the writes to peer sockets made by the last step

peervars == <<conns, wire, stream, emitted, partial_seen, sent>>

VARIABLES
    peer_list,         \* PeerManager.peers
    selector,          \* TorrentClient.select: the peers registered for reading
    phase,             \* where the thread running TorrentClient.download() is
    events,            \* the events of the current select() batch not yet handled
    was_finished,      \* the was_finished argument of TorrentClient.__init__
    handled            \* number of socket events handled so far

engvars == <<peer_list, selector, phase, events, was_finished, handled>>

VARIABLES
    failed_peers,      \* PeerManager.failed_peers: peer -> fail count (0: no entry)
    next_retry_time,   \* PeerManager.next_retry_time: peer -> time (NoTime: no entry)
    attempted          \* the peers PeerManager._connect was called on by the last step

retryvars == <<failed_peers, next_retry_time, attempted>>

VARIABLES
    fs,                \* the files of the download directory: the .part file, the final
                       \* file (single-file torrent), the target files (multi-file torrent)
    mapped,            \* the file PieceStorage._mmap maps: "part", "final" or "closed"
    is_multifile       \* TorrentFile.is_multifile

storevars == <<fs, mapped, is_multifile>>

VARIABLES
    asked              \* history: block -> the peer the last request for it was sent to (0: none)

VARIABLES
    completed_on       \* TorrentClient.completed_on (NoTime: None)

VARIABLES
    in_hand            \* _event_loop: <<peer, msg>>, the message recv_message has returned
                       \* and the dispatch has not yet acted on (<<>>: none)

VARIABLES
    trackers,          \* TrackerManager.trackers: tracker -> the fields of its TrackerEntry
    announce,          \* get_all_peers: the call in progress (pending futures, all_peers,
                       \* seen, min_interval), then its return value
    outcomes           \* history: tracker -> what its future of the current call produced

trackervars == <<trackers, announce, outcomes>>

VARIABLES
    paused,            \* TorrentClient.paused
    notified           \* the engine thread, waiting on _paused_cond, has been notified

pausevars == <<paused, notified>>

VARIABLES
    worker,            \* where the retry worker thread is: "none", "idle", "connecting", "exited"
    worker_retry,      \* retry_failed_peers: the list `retry` of the call in progress
    stop_event,        \* PeerManager._stop_event is set
    shutdown           \* where the thread running TorrentClient.cleanup() is

shutvars == <<worker, worker_retry, stop_event, shutdown>>

ctlvars == <<retryvars, storevars, asked, pausevars, shutvars, completed_on, trackervars, in_hand>>
\* the variables of ctlvars outside each group
ctl_not_retry == <<storevars, asked, pausevars, shutvars, completed_on, trackervars, in_hand>>
ctl_not_store == <<retryvars, asked, pausevars, shutvars, completed_on, trackervars, in_hand>>
ctl_not_asked == <<retryvars, storevars, pausevars, shutvars, completed_on, trackervars, in_hand>>
ctl_not_trackers == <<retryvars, storevars, asked, pausevars, shutvars, completed_on, in_hand>>
\* the variables of ctlvars that taking an event off the batch leaves alone
ctl_not_asked_in_hand == <<retryvars, storevars, pausevars, shutvars, completed_on, trackervars>>
ctl_not_pause == <<retryvars, storevars, asked, shutvars, completed_on, trackervars, in_hand>>

vars == <<pmvars, peervars, engvars, ctlvars>>

Peers == 1..NumPeers
\* bitmaps handed to the PieceManager API: one bit per piece
Bitmaps == [1..NumPieces -> {0, 1}]
\* the keys of the availability Counter: every piece index and one past the last
AvailIdx == 0..NumPieces

\* op: the operation, arg: the bitmap or index it was given (<<>> for the other
\* operations), block: the Block it returned (<<>>: None), ret: its other return value
Result(op, arg, block, ret) == [op |-> op, arg |-> arg, block |-> block, ret |-> ret]

(***************************************************************************)
(* Block and Piece (block.py, piece.py).                                   *)
(***************************************************************************)
\* Block.set_requested
set_requested(b, t) == [b EXCEPT !.is_requested = TRUE, !.request_time = t]

\* a faulty reset that clears only is_received
resetReceivedOnly(b) == [b EXCEPT !.is_received = FALSE]

\* Block.reset
reset(b) == [b EXCEPT !.is_requested = FALSE, !.is_received = FALSE, !.request_time = NoTime]

\* the test of Piece.next_block's loop
IsFree(b) == ~b.is_requested /\ ~b.is_received

\* a faulty scan that skips only received blocks (is_requested is not looked at)
FirstFreeIgnoringRequested(blocks) ==
    IF \E k \in 1..Len(blocks) : ~blocks[k].is_received
    THEN SetMin({k \in 1..Len(blocks) : ~blocks[k].is_received})
    ELSE 0

\* Piece.next_block's scan: position of the first free block, 0 when there is none
FirstFree(blocks) ==
    IF \E k \in 1..Len(blocks) : IsFree(blocks[k])
    THEN SetMin({k \in 1..Len(blocks) : IsFree(blocks[k])})
    ELSE 0

\* Piece.next_block on piece i at time t: the pieces after the call
next_block_pieces(ps, i, t) ==
    LET k == FirstFree(ps[i].blocks)
    IN  IF k = 0 THEN ps ELSE [ps EXCEPT ![i].blocks[k] = set_requested(@, t)]

\* Piece.next_block on piece i: the Block returned
next_block_ret(ps, i) ==
    LET k == FirstFree(ps[i].blocks)
    IN  IF k = 0 THEN <<>> ELSE <<i, k>>

\* PieceStorage.write
storage_write(mm, piece_index, piece_offset, data) ==
    LET start == piece_index * piece_length + piece_offset
    IN  SliceAssign(mm, start, start + Len(data), data)

\* PieceStorage.read
storage_read(mm, global_offset, length) == Slice(mm, global_offset, global_offset + length)

\* Piece.block_received's search for the block with the given offset (0: none)
FindBlock(i, offset) ==
    IF \E k \in 1..NumBlocks(i) : BlockOffset(k) = offset
    THEN CHOOSE k \in 1..NumBlocks(i) : BlockOffset(k) = offset
    ELSE 0

\* the comparison hashlib.sha1(self._buffer).digest() == self.sha1
HashMatches(buf, i) == SHA1(buf) = Hash(i)

\* a faulty copy that always lands at the start of the buffer
buffer_store_at_start(buf, offset, length, data) == SliceAssign(buf, 0, length, data)

\* self._buffer[offset:offset + block.length] = data
buffer_store(buf, offset, length, data) == SliceAssign(buf, offset, offset + length, data)

\* Piece.block_received without "if block.is_received: return"
IgnoredUnlessReceived(p, i, offset, data) ==
    LET k == FindBlock(i, offset)
    IN  k = 0 \/ Len(data) # BlockLength(i, k)

\* a block is ignored: no such offset, wrong length, or already received
Ignored(p, i, offset, data) ==
    LET k == FindBlock(i, offset)
    IN  \/ k = 0
        \/ Len(data) # BlockLength(i, k)
        \/ p.blocks[k].is_received

\* Piece.block_received on piece p (of index i) over the map mm:
\* the piece and the map after the call and the value returned
piece_block_received(p, mm, i, offset, data) ==
    IF Ignored(p, i, offset, data)
    THEN [piece |-> p, mmap |-> mm, ret |-> "None"]
    ELSE
      LET k == FindBlock(i, offset)
          mm2 == storage_write(mm, i, offset, data)
          buf == buffer_store(p.buffer, offset, BlockLength(i, k), data)
          n == p.blocks_received + 1
          p2 == [p EXCEPT !.buffer = buf, !.blocks[k].is_received = TRUE,
                          !.blocks_received = n]
      IN  IF n = Len(p.blocks)
          THEN IF HashMatches(buf, i)
               THEN [piece |-> [p2 EXCEPT !.is_complete = TRUE, !.buffer = <<>>],
                     mmap |-> mm2, ret |-> "True"]
               ELSE [piece |-> [p2 EXCEPT !.is_complete = FALSE, !.blocks_received = 0,
                                          !.blocks = [j \in 1..Len(p.blocks) |-> reset(p2.blocks[j])]],
                     mmap |-> mm2, ret |-> "False"]
          ELSE [piece |-> p2, mmap |-> mm2, ret |-> "False"]

\* history: the call hashes the full reassembled piece and the digest is the expected one
Sha1Succeeds(p, i, offset, data) ==
    /\ ~Ignored(p, i, offset, data)
    /\ p.blocks_received + 1 = Len(p.blocks)
    /\ SHA1(SliceAssign(p.buffer, offset, offset + Len(data), data)) = Hash(i)

(***************************************************************************)
(* PieceManager (piece_manager.py).                                        *)
(***************************************************************************)
\* PieceManager.__init__
InitPieces == [i \in PieceIdx |-> NewPiece(i)]
InitAvailability == [x \in AvailIdx |-> 0]

\* PieceManager.is_finished
is_finished(ps) == \A i \in PieceIdx : ps[i].is_complete

\* the timeout test with "now - block.request_time > REQUEST_TIMEOUT"
TimedOutLater(b, t) ==
    /\ b.is_requested /\ ~b.is_received
    /\ b.request_time # NoTime /\ t - b.request_time > REQUEST_TIMEOUT

\* the test of PieceManager.tick on one block at time t
TimedOut(b, t) ==
    /\ b.is_requested /\ ~b.is_received
    /\ b.request_time # NoTime /\ t - b.request_time >= REQUEST_TIMEOUT

\* PieceManager.tick at time t
tick(ps, t) ==
    [i \in PieceIdx |->
        IF ps[i].is_complete THEN ps[i]
        ELSE [ps[i] EXCEPT !.blocks =
                 [k \in 1..Len(ps[i].blocks) |->
                     IF TimedOut(ps[i].blocks[k], t)
                     THEN [ps[i].blocks[k] EXCEPT !.is_requested = FALSE, !.request_time = NoTime]
                     ELSE ps[i].blocks[k]]]]

\* PieceManager.on_choke: the pieces after resetting the peer's in-flight blocks
on_choke(ps, inflight) ==
    [i \in PieceIdx |->
        [ps[i] EXCEPT !.blocks =
            [k \in 1..Len(ps[i].blocks) |->
                IF \E n \in 1..Len(inflight) : inflight[n] = <<i, k>>
                THEN reset(ps[i].blocks[k]) ELSE ps[i].blocks[k]]]]

\* PieceManager.add_have
add_have(av, index) == [av EXCEPT ![index] = @ + 1]

\* PieceManager.add_bitmap
add_bitmap(av, bitmap) ==
    [x \in DOMAIN av |-> IF x < Len(bitmap) /\ bitmap[x + 1] = 1 THEN av[x] + 1 ELSE av[x]]

\* a faulty decrement that does not stop at zero
DecrementUnsaturated(n) == n - 1

\* the decrement of PieceManager.peer_disconnect
Decrement(n) == Max(0, n - 1)

\* PieceManager.peer_disconnect
peer_disconnect(av, bitmap) ==
    [x \in DOMAIN av |-> IF x < Len(bitmap) /\ bitmap[x + 1] = 1 THEN Decrement(av[x]) ELSE av[x]]

\* next_request_rarest_first: the pieces not complete and present in the peer's bitmap
Choices(ps, bitmap) == {i \in PieceIdx : ~ps[i].is_complete /\ bitmap[i + 1] = 1}

\* a faulty selection that takes the highest availability among the choices
MaxAvailOfChoices(ps, av, bitmap) ==
    CHOOSE x \in {av[i] : i \in Choices(ps, bitmap)} :
        \A y \in {av[i] : i \in Choices(ps, bitmap)} : x >= y

\* next_request_rarest_first: the lowest availability among the choices
MinAvail(ps, av, bitmap) == SetMin({av[i] : i \in Choices(ps, bitmap)})

\* next_request_rarest_first: the choices at the lowest availability
Rarest(ps, av, bitmap) ==
    {i \in Choices(ps, bitmap) : av[i] = MinAvail(ps, av, bitmap)}

\* next_request_rarest_first without its second loop ("for piece in choices")
RarestPiecesOnly(ps, av, bitmap) ==
    IF Choices(ps, bitmap) = {} THEN {}
    ELSE {i \in Rarest(ps, av, bitmap) : FirstFree(ps[i].blocks) # 0}

\* next_request_rarest_first: the pieces whose block the call may return. The rarest
\* pieces are tried in a shuffled order, so any of them with a free block may be the
\* first to produce one; otherwise the choices are tried in piece order
RarestFirstPieces(ps, av, bitmap) ==
    LET choices == Choices(ps, bitmap)
        free(S) == {i \in S : FirstFree(ps[i].blocks) # 0}
    IN  IF choices = {} THEN {}
        ELSE IF free(Rarest(ps, av, bitmap)) # {} THEN free(Rarest(ps, av, bitmap))
        ELSE IF free(choices) # {} THEN {SetMin(free(choices))}
        ELSE {}

(***************************************************************************)
(* The peer wire protocol and PeerConnection (peer_connection.py).         *)
(***************************************************************************)
\* struct.pack(">I", n)
pack_u32(n) == <<(n \div 16777216) % 256, (n \div 65536) % 256, (n \div 256) % 256, n % 256>>
\* struct.unpack(">I", b)
unpack_u32(b) == ((b[1] * 256 + b[2]) * 256 + b[3]) * 256 + b[4]

\* the dictionaries _parse_one returns, and None
KeepAlive == [type |-> "keep-alive"]
Message(id, payload) == [type |-> "message", id |-> id, payload |-> payload]
NoMsg == [type |-> "None"]
\* message.get("id") == id
HasId(msg, id) == msg.type = "message" /\ msg.id = id

\* the bytes of a message on the wire: 4-byte big-endian length, id, payload
Encode(msg) ==
    IF msg.type = "keep-alive" THEN pack_u32(0)
    ELSE pack_u32(1 + Len(msg.payload)) \o <<msg.id>> \o msg.payload

\* the messages of the protocol, by id
Choke == Message(0, <<>>)
Unchoke == Message(1, <<>>)
Interested == Message(2, <<>>)
NotInterested == Message(3, <<>>)
Have(index) == Message(4, pack_u32(index))
Bitfield(bytes) == Message(5, bytes)
Request(index, start, length) == Message(6, pack_u32(index) \o pack_u32(start) \o pack_u32(length))
PieceMsg(index, begin, block) == Message(7, pack_u32(index) \o pack_u32(begin) \o block)

\* bitarray.frombytes: the bits of the bytes, most significant first
BitsOfByte(b) == [k \in 1..8 |-> (b \div (2 ^ (8 - k))) % 2]
RECURSIVE frombytes(_)
frombytes(bytes) ==
    IF bytes = <<>> THEN <<>> ELSE BitsOfByte(Head(bytes)) \o frombytes(Tail(bytes))

\* a write to a peer's socket: send_have, send_request, ... with the outcome of the send
Write(p, msg, ok) == [to |-> p, msg |-> msg, ok |-> ok]

\* PeerConnection.__init__; bitmap <<>> is None, bytes_needed <<>> is None
NewConn == [active |-> FALSE, choked |-> TRUE, remote_choked |-> TRUE,
            remote_interested |-> FALSE, bitmap |-> <<>>, inflight |-> 0,
            recv_buffer |-> <<>>, bytes_needed |-> <<>>]
\* PeerConnection.connect succeeded (handshake done)
Connected == [NewConn EXCEPT !.active = TRUE]

\* _parse_one: del self._recv_buffer[:n], and a faulty variant that keeps a byte
DropPayloadKeepLast(buf, n) == Slice(buf, n - 1, Len(buf))
DropPayload(buf, n) == Slice(buf, n, Len(buf))

\* PeerConnection._parse_one, from "if len(self._recv_buffer) < self._bytes_needed" on
parse_payload(c) ==
    LET n == c.bytes_needed[1]
        payload == Slice(c.recv_buffer, 0, n)
    IN  IF Len(c.recv_buffer) < n
        THEN [conn |-> c, msg |-> NoMsg]
        ELSE [conn |-> [c EXCEPT !.recv_buffer = DropPayload(@, n), !.bytes_needed = <<>>],
              msg |-> Message(payload[1], Slice(payload, 1, Len(payload)))]

\* _parse_one without "del self._recv_buffer[:4]" for a keep-alive
parse_one_keeping_prefix(c) ==
    IF c.bytes_needed = <<>>
    THEN IF Len(c.recv_buffer) < 4
         THEN [conn |-> c, msg |-> NoMsg]
         ELSE LET length == unpack_u32(Slice(c.recv_buffer, 0, 4))
                  c2 == [c EXCEPT !.recv_buffer = Slice(@, 4, Len(@))]
              IN  IF length = 0
                  THEN [conn |-> c, msg |-> KeepAlive]
                  ELSE parse_payload([c2 EXCEPT !.bytes_needed = <<length>>])
    ELSE parse_payload(c)

\* PeerConnection._parse_one
parse_one(c) ==
    IF c.bytes_needed = <<>>
    THEN IF Len(c.recv_buffer) < 4
         THEN [conn |-> c, msg |-> NoMsg]
         ELSE LET length == unpack_u32(Slice(c.recv_buffer, 0, 4))
                  c2 == [c EXCEPT !.recv_buffer = Slice(@, 4, Len(@))]
              IN  IF length = 0
                  THEN [conn |-> c2, msg |-> KeepAlive]
                  ELSE parse_payload([c2 EXCEPT !.bytes_needed = <<length>>])
    ELSE parse_payload(c)

\* PeerConnection.recv_message when sock.recv returns `received`
\* (<<>>: BlockingIOError, no data); the ConnectionError case is the caller's
recv_message(c, received) ==
    IF ~c.active
    THEN [conn |-> c, msg |-> NoMsg]
    ELSE LET r == parse_one([c EXCEPT !.recv_buffer = @ \o received])
         IN  [conn |-> [r.conn EXCEPT !.inflight = IF HasId(r.msg, 7) THEN Max(0, @ - 1)
                                                    ELSE IF HasId(r.msg, 0) THEN 0
                                                    ELSE @],
              msg |-> r.msg]

\* PeerConnection._safe_send when the socket send succeeds (ok) or raises
safe_send(c, ok) == IF ok THEN c ELSE [c EXCEPT !.active = FALSE]

\* send_request: the in-flight cap test, and a faulty variant that is off by one
AtCapStrict(n) == n > MAX_INFLIGHT
AtCap(n) == n >= MAX_INFLIGHT

\* PeerConnection.send_request(index, start, length) on the connection of peer p
send_request(c, p, index, start, length, ok) ==
    IF AtCap(c.inflight) \/ ~c.active
    THEN [conn |-> c, ret |-> "False", wrote |-> {}]
    ELSE [conn |-> IF ok THEN [safe_send(c, ok) EXCEPT !.inflight = @ + 1] ELSE safe_send(c, ok),
          ret |-> IF ok THEN "True" ELSE "False",
          wrote |-> {Write(p, Request(index, start, length), ok)}]

\* PeerConnection.send_have(index) on the connection of peer p
send_have(c, p, index, ok) ==
    [conn |-> safe_send(c, ok), wrote |-> {Write(p, Have(index), ok)}]

\* PeerConnection.ensure_bitmap(num_pieces)
ensure_bitmap(bitmap, num_pieces) ==
    IF bitmap = <<>> THEN Zeros(num_pieces)
    ELSE IF Len(bitmap) < num_pieces THEN bitmap \o Zeros(num_pieces - Len(bitmap))
    ELSE bitmap

\* PeerConnection.close
close(c) == [c EXCEPT !.active = FALSE]

\* no peer connection exists; nothing is on the wire
InitNoPeers ==
    /\ conns = [p \in Peers |-> NewConn]
    /\ wire = <<>>
    /\ stream = <<>>
    /\ emitted = <<>>
    /\ partial_seen = FALSE
    /\ sent = {}

\* a file of the download directory
File(data) == [exists |-> TRUE, data |-> data]
NoFile == [exists |-> FALSE, data |-> <<>>]

\* the files are not looked at
InitNoStore ==
    /\ fs = [part |-> NoFile, final |-> NoFile, out |-> <<>>]
    /\ mapped = "part"
    /\ is_multifile = FALSE

\* no retry worker has been started, cleanup() has not been called
InitNoWorker ==
    /\ worker = "none"
    /\ worker_retry = {}
    /\ stop_event = FALSE
    /\ shutdown = "none"

\* PeerManager.__init__: no failure recorded
InitNoRetry ==
    /\ failed_peers = [p \in Peers |-> 0]
    /\ next_retry_time = [p \in Peers |-> NoTime]
    /\ attempted = {}

(***************************************************************************)
(* TrackerManager (tracker_manager.py).                                    *)
(***************************************************************************)
Trackers == 1..NumTrackers
\* the (ip, port) pairs trackers hand out
Endpoints == {<<1, 1>>, <<1, 2>>, <<2, 1>>}
\* the peer lists a tracker may return
PeerLists == UNION {[1..n -> Endpoints] : n \in 0..MaxTrackerPeers}
\* the intervals a tracker may return, in seconds
Intervals == {900, 3600}
\* the messages of the exceptions an announce may raise
ErrorMsgs == {"failed", "timed out"}

\* TrackerEntry.__init__
NewTrackerEntry == [last_status |-> "unknown", last_msg |-> "None", last_peers |-> 0,
                    last_seeds |-> 0]
NoOutcome == [kind |-> "pending"]
Idle == [state |-> "idle", pending |-> {}, all_peers |-> <<>>, seen |-> {},
         min_interval |-> fallback_interval]

\* no announce has been made
InitNoAnnounce ==
    /\ trackers = [t \in Trackers |-> NewTrackerEntry]
    /\ announce = Idle
    /\ outcomes = [t \in Trackers |-> NoOutcome]

\* get_all_peers with "all_peers.append(peer)" for every peer returned
RECURSIVE append_all(_, _, _)
append_all(all_peers, seen, peers) ==
    IF peers = <<>> THEN [all_peers |-> all_peers, seen |-> seen]
    ELSE append_all(Append(all_peers, Head(peers)), seen \cup {Head(peers)}, Tail(peers))

\* get_all_peers: "for peer in peers: if (peer.ip, peer.port) not in seen: ..."
RECURSIVE append_unseen(_, _, _)
append_unseen(all_peers, seen, peers) ==
    IF peers = <<>> THEN [all_peers |-> all_peers, seen |-> seen]
    ELSE IF Head(peers) \in seen
         THEN append_unseen(all_peers, seen, Tail(peers))
         ELSE append_unseen(Append(all_peers, Head(peers)), seen \cup {Head(peers)}, Tail(peers))

\* get_all_peers up to the submission of one future per tracker
GetAllPeers ==
    /\ announce.state # "running"
    /\ announce' = [Idle EXCEPT !.state = "running", !.pending = Trackers]
    /\ outcomes' = [t \in Trackers |-> NoOutcome]
    /\ UNCHANGED <<trackers, pmvars, peervars, engvars, ctl_not_trackers>>

\* the future of tracker t completes with (peers, interval): the try branch
FutureResult(t, peers, interval) ==
    /\ announce.state = "running"
    /\ t \in announce.pending
    /\ trackers' = [trackers EXCEPT ![t] = [last_status |-> "working", last_msg |-> "None",
                                            last_peers |-> Len(peers), last_seeds |-> 0]]
    /\ announce' = LET a == append_unseen(announce.all_peers, announce.seen, peers)
                   IN  [announce EXCEPT !.pending = @ \ {t},
                                        !.min_interval = Min(@, interval),
                                        !.all_peers = a.all_peers,
                                        !.seen = a.seen]
    /\ outcomes' = [outcomes EXCEPT ![t] = [kind |-> "result", peers |-> peers,
                                            interval |-> interval]]
    /\ UNCHANGED <<pmvars, peervars, engvars, ctl_not_trackers>>

\* the future of tracker t raises an exception with message msg: the except branch
FutureRaises(t, msg) ==
    /\ announce.state = "running"
    /\ t \in announce.pending
    /\ trackers' = [trackers EXCEPT ![t].last_status = "error", ![t].last_msg = msg]
    /\ announce' = [announce EXCEPT !.pending = @ \ {t}]
    /\ outcomes' = [outcomes EXCEPT ![t] = [kind |-> "raised", msg |-> msg]]
    /\ UNCHANGED <<pmvars, peervars, engvars, ctl_not_trackers>>

\* get_all_peers: "return all_peers, min_interval"
GetAllPeersReturn ==
    /\ announce.state = "running"
    /\ announce.pending = {}
    /\ announce' = [announce EXCEPT !.state = "returned"]
    /\ UNCHANGED <<trackers, outcomes, pmvars, peervars, engvars, ctl_not_trackers>>

\* the state of what surrounds the engine thread, before anything has run
InitCtl ==
    /\ InitNoRetry
    /\ InitNoStore
    /\ asked = [r \in BlockRefs |-> 0]
    /\ paused = FALSE
    /\ notified = FALSE
    /\ InitNoWorker
    /\ completed_on = NoTime
    /\ InitNoAnnounce
    /\ in_hand = <<>>

\* no TorrentClient is running
InitNoEngine ==
    /\ peer_list = {}
    /\ selector = {}
    /\ phase = "none"
    /\ events = {}
    /\ was_finished = FALSE
    /\ handled = 0

(***************************************************************************)
(* The PieceManager API as actions.                                        *)
(***************************************************************************)
\* Piece.next_block() on piece i
NextBlock(i) ==
    /\ pieces' = next_block_pieces(pieces, i, now)
    /\ result' = Result("next_block", <<>>, next_block_ret(pieces, i), "None")
    /\ UNCHANGED <<availability, inflight_by_peer, downloaded_bytes, mmap, read_only,
                   now, sha1_ok,
                   peervars, engvars, ctlvars>>

\* PieceManager.next_request_rarest_first(bitmap)
NextRequestRarestFirst(bitmap) ==
    /\ \/ /\ RarestFirstPieces(pieces, availability, bitmap) = {}
          /\ pieces' = pieces
          /\ result' = Result("next_request_rarest_first", bitmap, <<>>, "None")
       \/ \E i \in RarestFirstPieces(pieces, availability, bitmap) :
          /\ pieces' = next_block_pieces(pieces, i, now)
          /\ result' = Result("next_request_rarest_first", bitmap,
                              next_block_ret(pieces, i), "None")
    /\ UNCHANGED <<availability, inflight_by_peer, downloaded_bytes, mmap, read_only,
                   now, sha1_ok,
                   peervars, engvars, ctlvars>>

\* Piece.block_received(offset, data) on piece i
PieceBlockReceivedAs(i, offset, data, arg) ==
    \E r \in {piece_block_received(pieces[i], mmap, i, offset, data)} :
        /\ pieces' = [pieces EXCEPT ![i] = r.piece]
        /\ mmap' = r.mmap
        /\ sha1_ok' = IF Sha1Succeeds(pieces[i], i, offset, data) THEN sha1_ok \cup {i} ELSE sha1_ok
        /\ result' = Result("block_received", arg, <<>>, r.ret)
        /\ UNCHANGED <<availability, inflight_by_peer, downloaded_bytes, read_only, now,
                   peervars, engvars, ctlvars>>

PieceBlockReceived(i, offset, data) == PieceBlockReceivedAs(i, offset, data, <<>>)
\* the same call, its arguments kept in the record of the call
PieceBlockReceivedOf(i, offset, data) == PieceBlockReceivedAs(i, offset, data, <<i, offset, data>>)

\* PieceManager.block_received with "if result: self.downloaded_bytes += len(data)"
count_downloaded_on_true(n, ret, data) == IF ret = "True" THEN n + Len(data) ELSE n

\* PieceManager.block_received: the counter after a call that returned ret
count_downloaded(n, ret, data) == IF ret \in {"True", "False"} THEN n + Len(data) ELSE n

\* PieceManager.block_received(piece_index, offset, data)
BlockReceivedAs(i, offset, data, arg) ==
    \E r \in {piece_block_received(pieces[i], mmap, i, offset, data)} :
        /\ r.ret # "None" => downloaded_bytes + Len(data) <= MaxDownloaded
        /\ pieces' = [pieces EXCEPT ![i] = r.piece]
        /\ mmap' = r.mmap
        /\ downloaded_bytes' = count_downloaded(downloaded_bytes, r.ret, data)
        /\ sha1_ok' = IF Sha1Succeeds(pieces[i], i, offset, data) THEN sha1_ok \cup {i} ELSE sha1_ok
        /\ result' = Result("block_received", arg, <<>>, r.ret)
        /\ UNCHANGED <<availability, inflight_by_peer, read_only, now,
                   peervars, engvars, ctlvars>>

BlockReceived(i, offset, data) == BlockReceivedAs(i, offset, data, <<>>)
\* the same call, its arguments kept in the record of the call
BlockReceivedOf(i, offset, data) == BlockReceivedAs(i, offset, data, <<i, offset, data>>)

\* PieceManager.tick()
Tick ==
    /\ pieces' = tick(pieces, now)
    /\ result' = Result("tick", <<>>, <<>>, "None")
    /\ UNCHANGED <<availability, inflight_by_peer, downloaded_bytes, mmap, read_only,
                   now, sha1_ok,
                   peervars, engvars, ctlvars>>

\* PieceManager.on_choke(peer)
OnChoke(p) ==
    /\ pieces' = on_choke(pieces, inflight_by_peer[p])
    /\ inflight_by_peer' = [inflight_by_peer EXCEPT ![p] = <<>>]
    /\ result' = Result("on_choke", <<>>, <<>>, "None")
    /\ UNCHANGED <<availability, downloaded_bytes, mmap, read_only, now, sha1_ok,
                   peervars, engvars, ctlvars>>

\* PieceManager.add_have(index)
AddHave(index) ==
    /\ availability[index] < MaxAvail
    /\ availability' = add_have(availability, index)
    /\ result' = Result("add_have", <<index>>, <<>>, "None")
    /\ UNCHANGED <<pieces, inflight_by_peer, downloaded_bytes, mmap, read_only, now, sha1_ok,
                   peervars, engvars, ctlvars>>

\* PieceManager.add_bitmap(bitmap)
AddBitmap(bitmap) ==
    /\ \A x \in AvailIdx : (x < Len(bitmap) /\ bitmap[x + 1] = 1) => availability[x] < MaxAvail
    /\ availability' = add_bitmap(availability, bitmap)
    /\ result' = Result("add_bitmap", bitmap, <<>>, "None")
    /\ UNCHANGED <<pieces, inflight_by_peer, downloaded_bytes, mmap, read_only, now, sha1_ok,
                   peervars, engvars, ctlvars>>

\* PieceManager.peer_disconnect(bitmap)
PeerDisconnect(bitmap) ==
    /\ availability' = peer_disconnect(availability, bitmap)
    /\ result' = Result("peer_disconnect", bitmap, <<>>, "None")
    /\ UNCHANGED <<pieces, inflight_by_peer, downloaded_bytes, mmap, read_only, now, sha1_ok,
                   peervars, engvars, ctlvars>>

\* time passes
AdvanceTime ==
    /\ now + TimeStep <= MaxTime
    /\ now' = now + TimeStep
    /\ UNCHANGED <<pieces, availability, inflight_by_peer, downloaded_bytes, mmap,
                   read_only, sha1_ok, result,
                   peervars, engvars, ctlvars>>

\* the state after PieceStorage.__init__ (a fresh .part file) and PieceManager.__init__
InitPM ==
    /\ pieces = InitPieces
    /\ availability = InitAvailability
    /\ inflight_by_peer = [p \in Peers |-> <<>>]
    /\ downloaded_bytes = 0
    /\ mmap = Zeros(total_length)
    /\ read_only = FALSE
    /\ now = 0
    /\ sha1_ok = {}
    /\ result = Result("init", <<>>, <<>>, "None")

\* the state after PieceManager.__init__, with no peer connected and no engine running
InitAPI == InitPM /\ InitNoPeers /\ InitNoEngine /\ InitCtl

(***************************************************************************)
(* SpecLengths: _calculate_pieces_lengths called on any total length in    *)
(* 1..MaxTotalLength and any piece length in 1..MaxPieceLength.            *)
(***************************************************************************)
\* the arguments of the call are chosen; nothing else exists yet
InitLengths ==
    /\ \E total \in 1..MaxTotalLength, plen \in 1..MaxPieceLength :
          result = Result("arguments", <<total, plen>>, <<>>, <<>>)
    /\ pieces = InitPieces
    /\ availability = InitAvailability
    /\ inflight_by_peer = [p \in Peers |-> <<>>]
    /\ downloaded_bytes = 0
    /\ mmap = Zeros(total_length)
    /\ read_only = FALSE
    /\ now = 0
    /\ sha1_ok = {}
    /\ InitNoPeers
    /\ InitNoEngine
    /\ InitCtl

\* _calculate_pieces_lengths(total_length, piece_length)
CalculatePiecesLengths ==
    /\ result.op = "arguments"
    /\ result' = Result("calculate_pieces_lengths", result.arg, <<>>,
                        calculate_pieces_lengths(result.arg[1], result.arg[2]))
    /\ UNCHANGED <<pieces, availability, inflight_by_peer, downloaded_bytes, mmap, read_only,
                   now, sha1_ok, peervars, engvars, ctlvars>>

NextLengths == CalculatePiecesLengths

SpecLengths == InitLengths /\ [][NextLengths]_vars

\* block data a caller may pass: the data of some block, or zeros of any length
\* up to block_size
Datas == {GoodData(r[1], r[2]) : r \in BlockRefs} \cup {Zeros(n) : n \in 0..block_size}
\* offsets a caller may pass: every block offset, among them some that are no block of a shorter piece
Offsets == 0..(piece_length - 1)

(***************************************************************************)
(* SpecPiece: Piece.next_block, Piece.block_received and the PieceManager's  *)
(* next_request_rarest_first, tick and on_choke, called                     *)
(* in any order with any arguments.                                        *)
(***************************************************************************)
NextPiece ==
    \/ \E i \in PieceIdx : NextBlock(i)
    \/ \E bitmap \in Bitmaps : NextRequestRarestFirst(bitmap)
    \/ \E i \in PieceIdx, offset \in Offsets, data \in Datas :
          PieceBlockReceived(i, offset, data)
    \/ Tick
    \/ \E p \in Peers : OnChoke(p)
    \/ AdvanceTime

SpecPiece == InitAPI /\ [][NextPiece]_vars

(***************************************************************************)
(* SpecTick: Piece.next_block, Piece.block_received and tick() called in   *)
(* any order while the clock advances. SpecTickFair adds that the clock    *)
(* does advance and that tick() keeps being called (the engine calls it at *)
(* the top of every turn of its loop, at least once a second).             *)
(***************************************************************************)
NextTick ==
    \/ \E i \in PieceIdx : NextBlock(i)
    \/ \E i \in PieceIdx, offset \in Offsets, data \in Datas :
          PieceBlockReceived(i, offset, data)
    \/ Tick
    \/ AdvanceTime

SpecTick == InitAPI /\ [][NextTick]_vars

SpecTickFair == SpecTick /\ WF_vars(Tick) /\ WF_vars(AdvanceTime)

(***************************************************************************)
(* SpecBlock: Piece.next_block and Piece.block_received called in any      *)
(* order, the arguments of each block_received call kept.                  *)
(***************************************************************************)
NextBlockReceived ==
    \/ \E i \in PieceIdx : NextBlock(i)
    \/ \E i \in PieceIdx, offset \in Offsets, data \in Datas : PieceBlockReceivedOf(i, offset, data)

SpecBlock == InitAPI /\ [][NextBlockReceived]_vars

(***************************************************************************)
(* SpecTrackers: TrackerManager.get_all_peers called again and again, the  *)
(* futures of one call completing in any order.                            *)
(***************************************************************************)
NextTrackers ==
    \/ GetAllPeers
    \/ \E t \in Trackers, peers \in PeerLists, interval \in Intervals :
          FutureResult(t, peers, interval)
    \/ \E t \in Trackers, msg \in ErrorMsgs : FutureRaises(t, msg)
    \/ GetAllPeersReturn

SpecTrackers == InitAPI /\ [][NextTrackers]_vars

(***************************************************************************)
(* SpecAccount: the PieceManager's block_received, tick and on_choke and   *)
(* Piece.next_block called in any order, the arguments of each             *)
(* block_received call kept.                                               *)
(***************************************************************************)
NextAccount ==
    \/ \E i \in PieceIdx : NextBlock(i)
    \/ \E i \in PieceIdx, offset \in Offsets, data \in Datas : BlockReceivedOf(i, offset, data)
    \/ Tick
    \/ \E p \in Peers : OnChoke(p)
    \/ AdvanceTime

SpecAccount == InitAPI /\ [][NextAccount]_vars

(***************************************************************************)
(* SpecAvail: availability counting and rarest-first selection; blocks are  *)
(* delivered with their correct data.                                      *)
(***************************************************************************)
NextAvail ==
    \/ \E index \in AvailIdx : AddHave(index)
    \/ \E bitmap \in Bitmaps : AddBitmap(bitmap)
    \/ \E bitmap \in Bitmaps : PeerDisconnect(bitmap)
    \/ \E bitmap \in Bitmaps : NextRequestRarestFirst(bitmap)
    \/ \E r \in BlockRefs : BlockReceived(r[1], BlockOffset(r[2]), GoodData(r[1], r[2]))

SpecAvail == InitAPI /\ [][NextAvail]_vars

(***************************************************************************)
(* PeerConnection operations as actions.                                   *)
(***************************************************************************)
\* recv_message() on the connection of peer p when sock.recv returns the bytes
\* `received` (<<>>: BlockingIOError); the call returned msg
RecvEffect(p, received) ==
    \E r \in {recv_message(conns[p], received)} :
        /\ conns' = [conns EXCEPT ![p] = r.conn]
        /\ result' = Result("recv_message", r.msg, <<>>, "None")
        /\ sent' = {}
        /\ UNCHANGED <<pieces, availability, inflight_by_peer, downloaded_bytes, mmap,
                       read_only, now, sha1_ok, stream, engvars, ctlvars>>

\* recv_message() when sock.recv returns the next n bytes of the stream under test
Recv(p, n) ==
    /\ conns[p].active
    /\ n \in 1..Len(wire)
    /\ RecvEffect(p, Slice(wire, 0, n))
    /\ wire' = Slice(wire, n, Len(wire))
    /\ emitted' = IF result'.arg.type = "None" THEN emitted ELSE Append(emitted, result'.arg)
    /\ partial_seen' = (partial_seen \/ (/\ result'.arg.type = "None"
                                         /\ \/ conns'[p].recv_buffer # <<>>
                                            \/ conns'[p].bytes_needed # <<>>))

\* recv_message() when no data is available (sock.recv raises BlockingIOError)
RecvNoData(p) ==
    /\ RecvEffect(p, <<>>)
    /\ emitted' = IF result'.arg.type = "None" THEN emitted ELSE Append(emitted, result'.arg)
    /\ UNCHANGED <<wire, partial_seen>>

\* recv_message() when sock.recv returns exactly the bytes of message m
RecvWhole(p, m) ==
    /\ RecvEffect(p, Encode(m))
    /\ UNCHANGED <<wire, emitted, partial_seen>>

\* send_request(index, start, length) for block r; the socket send succeeds (ok) or raises
SendRequest(p, r, ok) ==
    \E s \in {send_request(conns[p], p, r[1], BlockOffset(r[2]), BlockLength(r[1], r[2]), ok)} :
        /\ conns' = [conns EXCEPT ![p] = s.conn]
        /\ sent' = s.wrote
        /\ result' = Result("send_request", <<p>>, r, s.ret)
        /\ UNCHANGED <<pieces, availability, inflight_by_peer, downloaded_bytes, mmap,
                       read_only, now, sha1_ok, wire, stream, emitted, partial_seen, engvars, ctlvars>>

\* messages a remote peer sends in the PeerConnection specifications
TestMsgs == {KeepAlive, Choke, Have(0), PieceMsg(0, 0, GoodData(0, 1))}
\* the streams under test: the encodings of up to MaxMsgs messages, concatenated
MsgSeqs == UNION {[1..n -> TestMsgs] : n \in 0..MaxMsgs}
RECURSIVE EncodeAll(_)
EncodeAll(msgs) == IF msgs = <<>> THEN <<>> ELSE Encode(Head(msgs)) \o EncodeAll(Tail(msgs))
\* sock.recv returns up to MaxChunk bytes, or all that is left
ChunkSizes == (1..MaxChunk) \cup {Len(wire)}

\* one connected peer (handshake done), the engine not running
InitOnePeer ==
    /\ conns = [p \in Peers |-> IF p = 1 THEN Connected ELSE NewConn]
    /\ peer_list = {1}
    /\ selector = {}
    /\ phase = "none"
    /\ events = {}
    /\ was_finished = FALSE
    /\ handled = 0
    /\ emitted = <<>>
    /\ partial_seen = FALSE
    /\ sent = {}
    /\ InitCtl

(***************************************************************************)
(* SpecParse: a stream of well-formed messages reaches recv_message in     *)
(* chunks split at any position.                                           *)
(***************************************************************************)
InitParse ==
    /\ InitPM
    /\ InitOnePeer
    /\ stream \in {EncodeAll(msgs) : msgs \in MsgSeqs}
    /\ wire = stream

NextParse ==
    \/ \E p \in peer_list, n \in ChunkSizes : Recv(p, n)
    \/ \E p \in peer_list : RecvNoData(p)

SpecParse == InitParse /\ [][NextParse]_vars

\* SpecParseFair: the engine's select() reports a socket whenever bytes have arrived on
\* it, and the loop then calls recv_message; a socket with nothing to read is not
\* reported, so nothing makes the loop call recv_message on it
SpecParseFair == SpecParse /\ WF_vars(\E p \in peer_list, n \in ChunkSizes : Recv(p, n))

(***************************************************************************)
(* SpecPeer: send_request calls and messages received whole on one         *)
(* connection, in any order.                                               *)
(***************************************************************************)
InitPeer ==
    /\ InitPM
    /\ InitOnePeer
    /\ stream = <<>>
    /\ wire = <<>>

NextPeer ==
    \/ \E p \in peer_list, r \in BlockRefs, ok \in BOOLEAN : SendRequest(p, r, ok)
    \/ \E p \in peer_list, m \in TestMsgs : RecvWhole(p, m)
    \/ \E p \in peer_list : RecvNoData(p)

SpecPeer == InitPeer /\ [][NextPeer]_vars

(***************************************************************************)
(* PeerManager (peer_manager.py): connect_all and the retry of failed      *)
(* peers with exponential backoff.                                         *)
(***************************************************************************)
\* _connect: "delay = self.base_retry_interval * (2 ** (count - 1))", and a faulty
\* variant whose exponent is off by one
retry_delay_from_zero(count) == base_retry_interval * (2 ^ count)
retry_delay(count) == base_retry_interval * (2 ^ (count - 1))

\* _connect without "self.failed_peers[peer] = count"
connect_counts_kept(fp, tried, ok) == fp

\* _connect on the peers of `tried`, of which those in `ok` connect, at time t:
\* the fail counts and the retry times it leaves (a connect takes no time)
connect_counts(fp, tried, ok) ==
    [p \in Peers |-> IF p \in tried \ ok THEN fp[p] + 1 ELSE fp[p]]
connect_times(fp, nrt, tried, ok, t) ==
    [p \in Peers |-> IF p \in tried \ ok THEN t + retry_delay(fp[p] + 1) ELSE nrt[p]]

\* retry_failed_peers: the list `retry`
RetryList ==
    {p \in Peers : /\ next_retry_time[p] # NoTime
                   /\ now >= next_retry_time[p]
                   /\ failed_peers[p] < max_failures}

\* PeerManager.connect_all: every known peer is tried; those in `alive` connect
ConnectAll(alive) ==
    /\ phase = "manager"
    /\ attempted' = peer_list
    /\ failed_peers' = connect_counts(failed_peers, peer_list, alive)
    /\ next_retry_time' = connect_times(failed_peers, next_retry_time, peer_list, alive, now)
    /\ peer_list' = alive
    /\ conns' = [p \in Peers |-> IF p \in alive THEN Connected ELSE conns[p]]
    /\ phase' = "retrying"
    /\ result' = Result("connect_all", <<>>, <<>>, "None")
    /\ UNCHANGED <<pieces, availability, inflight_by_peer, downloaded_bytes, mmap, read_only,
                   now, sha1_ok, wire, stream, emitted, partial_seen, sent, selector, events,
                   was_finished, handled, ctl_not_retry>>

\* PeerManager.retry_failed_peers, called by retry_worker: the peers of the retry
\* list are tried; those in `ok` connect and leave the failure tables
RetryFailedPeers(ok) ==
    /\ phase = "retrying"
    /\ ok \subseteq RetryList
    /\ attempted' = RetryList
    /\ failed_peers' = [p \in Peers |-> IF p \in ok THEN 0
                                        ELSE connect_counts(failed_peers, RetryList, ok)[p]]
    /\ next_retry_time' =
           [p \in Peers |-> IF p \in ok THEN NoTime
                            ELSE connect_times(failed_peers, next_retry_time, RetryList, ok, now)[p]]
    /\ peer_list' = peer_list \cup ok
    /\ conns' = [p \in Peers |-> IF p \in ok THEN Connected ELSE conns[p]]
    /\ result' = Result("retry_failed_peers", <<>>, <<>>, "None")
    /\ UNCHANGED <<pieces, availability, inflight_by_peer, downloaded_bytes, mmap, read_only,
                   now, sha1_ok, wire, stream, emitted, partial_seen, sent, selector, phase, events,
                   was_finished, handled, ctl_not_retry>>

\* retry_worker: "self._stop_event.wait(check_interval)": time passes between two calls
RetryWait ==
    /\ phase = "retrying"
    /\ now + base_retry_interval <= MaxRetryTime
    /\ now' = now + base_retry_interval
    /\ attempted' = {}
    /\ result' = Result("wait", <<>>, <<>>, "None")
    /\ UNCHANGED <<pieces, availability, inflight_by_peer, downloaded_bytes, mmap, read_only,
                   sha1_ok, peervars, engvars, failed_peers, next_retry_time,
                   ctl_not_retry>>

\* PeerManager.__init__ with every peer of the swarm in its list
InitRetry ==
    /\ InitPM
    /\ InitNoPeers
    /\ InitCtl
    /\ peer_list = Peers
    /\ selector = {}
    /\ phase = "manager"
    /\ events = {}
    /\ was_finished = FALSE
    /\ handled = 0

(***************************************************************************)
(* SpecRetry: connect_all, then retry_failed_peers called every            *)
(* check_interval seconds, each connect succeeding or failing.             *)
(***************************************************************************)
NextRetry ==
    \/ \E alive \in SUBSET Peers : ConnectAll(alive)
    \/ \E ok \in SUBSET Peers : RetryFailedPeers(ok)
    \/ RetryWait

SpecRetry == InitRetry /\ [][NextRetry]_vars

(***************************************************************************)
(* The retry worker thread (PeerManager.retry_worker) and                  *)
(* TorrentClient.cleanup() running in another thread.                      *)
(***************************************************************************)
\* PeerManager.start_retry_worker, called by download() after _setup_peers
StartRetryWorker ==
    /\ phase = "retrying"
    /\ worker = "none"
    /\ shutdown = "none"
    /\ worker' = "idle"
    /\ stop_event' = FALSE
    /\ attempted' = {}
    /\ result' = Result("start_retry_worker", <<>>, <<>>, "None")
    /\ UNCHANGED <<pieces, availability, inflight_by_peer, downloaded_bytes, mmap, read_only,
                   now, sha1_ok, peervars, engvars, failed_peers, next_retry_time,
                   storevars, asked, pausevars, completed_on, trackervars, in_hand, worker_retry, shutdown>>

\* retry_worker: "while not self._stop_event.is_set()" holds and retry_failed_peers
\* starts: the retry list is computed and the connects are submitted
WorkerBegin ==
    /\ worker = "idle"
    /\ ~stop_event
    /\ RetryList # {}
    /\ worker' = "connecting"
    /\ worker_retry' = RetryList
    /\ attempted' = RetryList
    /\ result' = Result("retry_failed_peers", <<>>, <<>>, "None")
    /\ UNCHANGED <<pieces, availability, inflight_by_peer, downloaded_bytes, mmap, read_only,
                   now, sha1_ok, peervars, engvars, failed_peers, next_retry_time,
                   storevars, asked, pausevars, completed_on, trackervars, in_hand, stop_event, shutdown>>

\* retry_failed_peers: the connects submitted have finished; the peers of `ok` have
\* connected and are appended to the peer list
WorkerFinish(ok) ==
    /\ worker = "connecting"
    /\ ok \subseteq worker_retry
    /\ failed_peers' = [p \in Peers |-> IF p \in ok THEN 0
                                        ELSE connect_counts(failed_peers, worker_retry, ok)[p]]
    /\ next_retry_time' =
           [p \in Peers |-> IF p \in ok THEN NoTime
                            ELSE connect_times(failed_peers, next_retry_time, worker_retry,
                                               ok, now)[p]]
    /\ peer_list' = peer_list \cup ok
    /\ conns' = [p \in Peers |-> IF p \in ok THEN Connected ELSE conns[p]]
    /\ worker' = "idle"
    /\ worker_retry' = {}
    /\ attempted' = {}
    /\ result' = Result("connected", ok, <<>>, "None")
    /\ UNCHANGED <<pieces, availability, inflight_by_peer, downloaded_bytes, mmap, read_only,
                   now, sha1_ok, wire, stream, emitted, partial_seen, sent, selector, phase,
                   events, was_finished, handled, storevars, asked, pausevars, completed_on, trackervars, in_hand, stop_event,
                   shutdown>>

\* retry_worker: "while not self._stop_event.is_set()" fails: the thread ends
WorkerExit ==
    /\ worker = "idle"
    /\ stop_event
    /\ worker' = "exited"
    /\ UNCHANGED <<pmvars, peervars, engvars, retryvars, storevars, asked, pausevars, completed_on, trackervars, in_hand,
                   worker_retry, stop_event, shutdown>>

\* TorrentClient.cleanup, first statement: self.piece_storage.cleanup()
CleanupStore ==
    /\ phase = "retrying"
    /\ worker # "none"
    /\ shutdown = "none"
    /\ shutdown' = "store_cleaned"
    /\ mapped' = "closed"
    /\ result' = Result("storage_cleanup", <<>>, <<>>, "None")
    /\ UNCHANGED <<pieces, availability, inflight_by_peer, downloaded_bytes, mmap, read_only,
                   now, sha1_ok, peervars, engvars, retryvars, fs, is_multifile, asked,
                   pausevars, completed_on, trackervars, in_hand, worker, worker_retry, stop_event>>

\* PeerManager.close_all: the availability after the peers of the list are closed
RECURSIVE close_all_availability(_, _)
close_all_availability(av, ps) ==
    IF ps = {} THEN av
    ELSE LET p == CHOOSE q \in ps : TRUE
         IN  close_all_availability(IF conns[p].bitmap # <<>>
                                    THEN peer_disconnect(av, conns[p].bitmap) ELSE av,
                                    ps \ {p})

\* TorrentClient.cleanup, second statement: self.peer_manager.close_all()
CloseAll ==
    /\ shutdown = "store_cleaned"
    /\ shutdown' = "peers_closed"
    /\ conns' = [p \in Peers |-> IF p \in peer_list THEN close(conns[p]) ELSE conns[p]]
    /\ availability' = close_all_availability(availability, peer_list)
    /\ peer_list' = {}
    /\ failed_peers' = [p \in Peers |-> 0]
    /\ next_retry_time' = [p \in Peers |-> NoTime]
    /\ result' = Result("close_all", <<>>, <<>>, "None")
    /\ UNCHANGED <<pieces, inflight_by_peer, downloaded_bytes, mmap, read_only, now, sha1_ok,
                   wire, stream, emitted, partial_seen, sent, selector, phase, events,
                   was_finished, handled, attempted, storevars, asked, pausevars, completed_on, trackervars, in_hand, worker,
                   worker_retry, stop_event>>

\* TorrentClient.cleanup, third statement: stop_retry_worker sets the stop event
StopRetryWorker ==
    /\ shutdown = "peers_closed"
    /\ shutdown' = "joining"
    /\ stop_event' = TRUE
    /\ UNCHANGED <<pmvars, peervars, engvars, retryvars, storevars, asked, pausevars, completed_on, trackervars, in_hand,
                   worker, worker_retry>>

\* stop_retry_worker: "self._retry_thread.join()" returns, and cleanup() with it
JoinRetryWorker ==
    /\ shutdown = "joining"
    /\ worker = "exited"
    /\ shutdown' = "returned"
    /\ UNCHANGED <<pmvars, peervars, engvars, retryvars, storevars, asked, pausevars, completed_on, trackervars, in_hand,
                   worker, worker_retry, stop_event>>

(***************************************************************************)
(* SpecShutdown: connect_all, the retry worker, and cleanup() called at    *)
(* any moment after the worker has started.                                *)
(***************************************************************************)
NextShutdown ==
    \/ \E alive \in SUBSET Peers : ConnectAll(alive)
    \/ StartRetryWorker
    \/ WorkerBegin
    \/ \E ok \in SUBSET Peers : WorkerFinish(ok)
    \/ WorkerExit
    \/ RetryWait
    \/ CleanupStore
    \/ CloseAll
    \/ StopRetryWorker
    \/ JoinRetryWorker

SpecShutdown == InitRetry /\ [][NextShutdown]_vars

(***************************************************************************)
(* PieceStorage (storage_manager.py) over the files of the download        *)
(* directory.                                                              *)
(***************************************************************************)
\* the contents the .part file may have when the client is constructed: each piece
\* either holds its content or is zero
Disks ==
    {[k \in 1..total_length |-> IF ((k - 1) \div piece_length) \in S THEN Content[k] ELSE 0] :
        S \in SUBSET PieceIdx}

\* TorrentFile.file_layout: the lengths of the files of a multi-file torrent
FileLayout == <<1, total_length - 1>>

\* _scatter_into_files: the bytes written to one target file, read from the .part
\* file from position pos on in chunks of at most piece_length bytes
RECURSIVE scatter_file(_, _, _)
scatter_file(src, pos, remaining) ==
    IF remaining = 0 \/ pos >= Len(src) THEN <<>>
    ELSE LET piece == Slice(src, pos, pos + Min(remaining, piece_length))
         IN  piece \o scatter_file(src, pos + Len(piece), remaining - Len(piece))

\* _scatter_into_files: the target files, in the order of the layout
RECURSIVE scatter_into_files(_, _, _)
scatter_into_files(src, pos, k) ==
    IF k > Len(FileLayout) THEN <<>>
    ELSE <<File(scatter_file(src, pos, FileLayout[k]))>>
         \o scatter_into_files(src, pos + FileLayout[k], k + 1)

\* switch_to_seeding: the file reopened read-only, and a faulty choice that always
\* reopens the .part file
reopen_part(multi) == "part"
reopen_path(multi) == IF multi THEN "part" ELSE "final"

\* switch_to_seeding: the files after the scatter (multi-file) or the move (single-file)
seeding_files(f, multi) ==
    IF multi THEN [f EXCEPT !.out = scatter_into_files(f.part.data, 0, 1)]
    ELSE IF f.part.exists THEN [f EXCEPT !.final = f.part, !.part = NoFile]
    ELSE f

\* PieceStorage.write(piece_index, piece_offset, data) of the bytes of block r; a
\* read-only or closed map raises and nothing changes
StoreWrite(r, data) ==
    /\ phase = "store"
    /\ Len(data) = BlockLength(r[1], r[2])
    /\ IF read_only \/ mapped = "closed"
       THEN /\ UNCHANGED <<mmap, fs>>
            /\ result' = Result("write", <<>>, r, "raised")
       ELSE /\ mmap' = storage_write(mmap, r[1], BlockOffset(r[2]), data)
            /\ fs' = [fs EXCEPT ![mapped].data = mmap']
            /\ result' = Result("write", <<>>, r, "None")
    /\ UNCHANGED <<pieces, availability, inflight_by_peer, downloaded_bytes, read_only, now,
                   sha1_ok, peervars, engvars, mapped, is_multifile, ctl_not_store>>

\* PieceStorage.read(global_offset, length)
StoreRead(global_offset, length) ==
    /\ phase = "store"
    /\ mapped # "closed"
    /\ result' = Result("read", <<global_offset, length>>, <<>>,
                        storage_read(mmap, global_offset, length))
    /\ UNCHANGED <<pieces, availability, inflight_by_peer, downloaded_bytes, mmap, read_only,
                   now, sha1_ok, peervars, engvars, storevars, ctl_not_store>>

\* PieceStorage.switch_to_seeding; result.arg tells whether the store was read-only
\* when it was called
SwitchToSeeding ==
    /\ phase = "store"
    /\ mapped # "closed"
    /\ result' = Result("switch_to_seeding", <<read_only>>, <<>>, "None")
    /\ IF read_only
       THEN UNCHANGED <<fs, mapped, mmap, read_only>>
       ELSE \E f \in {seeding_files(fs, is_multifile)} :
            \E path \in {reopen_path(is_multifile)} :
              /\ fs' = f
              /\ IF f[path].exists
                 THEN /\ mapped' = path
                      /\ mmap' = f[path].data
                      /\ read_only' = TRUE
                 ELSE /\ mapped' = "closed"
                      /\ mmap' = <<>>
                      /\ read_only' = read_only
    /\ UNCHANGED <<pieces, availability, inflight_by_peer, downloaded_bytes, now, sha1_ok,
                   peervars, engvars, is_multifile, ctl_not_store>>

\* the state after PieceStorage.__init__: the .part file is there already, with any
\* contents, or is created zero-filled; a final file may be left of an earlier download
InitStore ==
    /\ is_multifile \in BOOLEAN
    /\ mmap \in Disks
    /\ \E old \in {NoFile, File(Zeros(total_length))} :
           fs = [part |-> File(mmap), final |-> IF is_multifile THEN NoFile ELSE old,
                 out |-> <<>>]
    /\ mapped = "part"
    /\ read_only = FALSE
    /\ pieces = InitPieces
    /\ availability = InitAvailability
    /\ inflight_by_peer = [p \in Peers |-> <<>>]
    /\ downloaded_bytes = 0
    /\ now = 0
    /\ sha1_ok = {}
    /\ result = Result("init", <<>>, <<>>, "None")
    /\ InitNoPeers
    /\ InitNoRetry
    /\ asked = [r \in BlockRefs |-> 0]
    /\ paused = FALSE
    /\ notified = FALSE
    /\ InitNoWorker
    /\ completed_on = NoTime
    /\ InitNoAnnounce
    /\ in_hand = <<>>
    /\ peer_list = {}
    /\ selector = {}
    /\ phase = "store"
    /\ events = {}
    /\ was_finished = FALSE
    /\ handled = 0

(***************************************************************************)
(* SpecStore: write, read and switch_to_seeding called in any order.       *)
(***************************************************************************)
NextStore ==
    \/ \E r \in BlockRefs, data \in Datas : StoreWrite(r, data)
    \/ \E global_offset \in 0..total_length, length \in 0..total_length :
          StoreRead(global_offset, length)
    \/ SwitchToSeeding

SpecStore == InitStore /\ [][NextStore]_vars

(***************************************************************************)
(* TorrentClient (torrent_client.py) and PeerManager (peer_manager.py).    *)
(***************************************************************************)
\* bitarray.tobytes: eight bits per byte, most significant first, zero padded
BitAt(bits, k) == IF k <= Len(bits) THEN bits[k] ELSE 0
RECURSIVE ByteFrom(_, _, _)
ByteFrom(bits, j, k) ==
    IF k > 8 THEN 0
    ELSE BitAt(bits, 8 * (j - 1) + k) * (2 ^ (8 - k)) + ByteFrom(bits, j, k + 1)
tobytes(bits) == [j \in 1..((Len(bits) + 7) \div 8) |-> ByteFrom(bits, j, 1)]

\* TorrentClient._generate_bitfield
generate_bitfield(ps) ==
    tobytes([k \in 1..NumPieces |-> IF ps[k - 1].is_complete THEN 1 ELSE 0])

\* TorrentClient._verify_existing: the pieces whose bytes on disk have the expected hash
Verified(disk) ==
    {i \in PieceIdx : SHA1(storage_read(disk, i * piece_length, PieceLen(i))) = Hash(i)}
\* TorrentClient._verify_existing: a verified piece
verified_piece(p) ==
    [p EXCEPT !.is_complete = TRUE,
              !.blocks = [k \in 1..Len(p.blocks) |-> [p.blocks[k] EXCEPT !.is_received = TRUE]]]
verify_existing(ps, disk) ==
    [i \in PieceIdx |-> IF i \in Verified(disk) THEN verified_piece(ps[i]) ELSE ps[i]]
RECURSIVE SumLengths(_)
SumLengths(S) ==
    IF S = {} THEN 0 ELSE LET i == CHOOSE x \in S : TRUE IN PieceLen(i) + SumLengths(S \ {i})

\* TorrentClient.__init__ with was_finished: every piece marked complete
mark_all_complete(ps) == [i \in PieceIdx |-> [ps[i] EXCEPT !.is_complete = TRUE]]

\* the state after TorrentClient.__init__(was_finished) over a .part file
InitEngine ==
    /\ was_finished \in BOOLEAN
    /\ mmap \in Disks
    /\ pieces = IF was_finished THEN mark_all_complete(InitPieces)
                ELSE verify_existing(InitPieces, mmap)
    /\ downloaded_bytes = IF was_finished THEN total_length ELSE SumLengths(Verified(mmap))
    /\ read_only = (~was_finished /\ Verified(mmap) = PieceIdx)
    /\ sha1_ok = IF was_finished THEN {} ELSE Verified(mmap)
    /\ availability = InitAvailability
    /\ inflight_by_peer = [p \in Peers |-> <<>>]
    /\ now = 0
    /\ result = Result("init", <<>>, <<>>, "None")
    /\ InitNoPeers
    /\ peer_list = {}
    /\ selector = {}
    /\ phase = "constructed"
    /\ events = {}
    /\ handled = 0
    /\ InitCtl

\* TorrentClient._setup_peers with PeerManager.connect_all: the peers in `alive` connect,
\* and the initial interested / bitfield writes succeed for those in `okset`
SetupPeers(alive, okset) ==
    /\ phase = "constructed"
    /\ okset \subseteq alive
    /\ peer_list' = alive
    /\ selector' = alive
    /\ conns' = [p \in Peers |-> IF p \in alive THEN safe_send(Connected, p \in okset)
                                 ELSE NewConn]
    /\ sent' = UNION {{Write(p, Interested, p \in okset),
                       Write(p, Bitfield(generate_bitfield(pieces)), p \in okset)} : p \in alive}
    /\ phase' = "loop"
    /\ result' = Result("setup_peers", <<>>, <<>>, "None")
    /\ UNCHANGED <<pieces, availability, inflight_by_peer, downloaded_bytes, mmap, read_only,
                   now, sha1_ok, wire, stream, emitted, partial_seen, events, was_finished,
                   handled>>
    /\ UNCHANGED ctlvars

\* _event_loop: "while not self.piece_manager.is_finished()" is false, download() returns
LoopExit ==
    /\ phase = "loop"
    /\ is_finished(pieces)
    /\ phase' = "done"
    /\ sent' = {}
    /\ result' = Result("exit", <<>>, <<>>, "None")
    /\ UNCHANGED <<pieces, availability, inflight_by_peer, downloaded_bytes, mmap, read_only,
                   now, sha1_ok, conns, wire, stream, emitted, partial_seen, peer_list,
                   selector, events, was_finished, handled>>
    /\ UNCHANGED ctlvars

\* _event_loop: tick, then select() returns the batch of peers whose sockets are
\* readable (none when the selector is empty or on timeout)
TickAndSelect(batch) ==
    /\ batch \subseteq selector
    /\ pieces' = tick(pieces, now)
    /\ events' = batch
    /\ phase' = IF batch = {} THEN "loop" ELSE "events"
    /\ sent' = {}
    /\ result' = Result("select", <<>>, <<>>, "None")
    /\ UNCHANGED <<availability, inflight_by_peer, downloaded_bytes, mmap, read_only,
                   now, sha1_ok, conns, wire, stream, emitted, partial_seen, peer_list,
                   selector, was_finished, handled>>

\* _event_loop: the top of one iteration when the client is not paused
LoopSelect(batch) ==
    /\ phase = "loop"
    /\ ~is_finished(pieces)
    /\ ~paused
    /\ TickAndSelect(batch)
    /\ UNCHANGED ctlvars

\* _event_loop: the top of one iteration when the client is paused:
\* "while self.paused: self._paused_cond.wait()"
LoopWait ==
    /\ phase = "loop"
    /\ ~is_finished(pieces)
    /\ paused
    /\ phase' = "waiting"
    /\ notified' = FALSE
    /\ UNCHANGED <<pmvars, peervars, peer_list, selector, events, was_finished, handled,
                   paused, ctl_not_pause>>

\* _event_loop: the wait returns after a notify: the thread tests self.paused again,
\* and either waits again or goes on with the iteration
LoopWake(batch) ==
    /\ phase = "waiting"
    /\ notified
    /\ notified' = FALSE
    /\ IF paused
       THEN UNCHANGED <<pmvars, peervars, engvars>>
       ELSE TickAndSelect(batch)
    /\ UNCHANGED <<paused, ctl_not_pause>>

\* TorrentClient.pause
Pause ==
    /\ phase \in {"loop", "events", "waiting"}
    /\ paused' = TRUE
    /\ UNCHANGED <<pmvars, peervars, engvars, notified, ctl_not_pause>>

\* resume: "self._paused_cond.notify_all()" wakes the waiting thread, and a faulty
\* variant that wakes nobody
notify_nobody(waiting) == FALSE
notify_all(waiting) == waiting

\* TorrentClient.resume
Resume ==
    /\ phase \in {"loop", "events", "waiting"}
    /\ paused' = FALSE
    /\ notified' = (notified \/ notify_all(phase = "waiting"))
    /\ UNCHANGED <<pmvars, peervars, engvars, ctl_not_pause>>

\* _event_loop: the event of peer p leaves the batch; the thread goes on with the next
\* event or the next turn of the loop, or ends ("raised") on an uncaught exception
TakeEvent(p, then) ==
    /\ phase = "events"
    /\ p \in events
    /\ handled < MaxEvents
    /\ handled' = handled + 1
    /\ events' = events \ {p}
    /\ phase' = then
    /\ UNCHANGED <<inflight_by_peer, now, wire, stream, emitted, partial_seen, was_finished>>
    /\ UNCHANGED ctl_not_asked
EventTaken(p) == TakeEvent(p, IF events \ {p} = {} THEN "loop" ELSE "events")

\* _event_loop: "if not peer.active: continue"
HandleInactive(p) ==
    /\ EventTaken(p)
    /\ ~conns[p].active
    /\ sent' = {}
    /\ result' = Result("skip", <<p>>, <<>>, "None")
    /\ UNCHANGED <<pieces, availability, downloaded_bytes, mmap, read_only, sha1_ok, conns,
                   peer_list, selector>>
    /\ UNCHANGED asked

\* PeerManager.remove_peer
remove_peer_availability(av, c) == IF c.bitmap # <<>> THEN peer_disconnect(av, c.bitmap) ELSE av

\* _event_loop: recv_message raises ConnectionError: remove_peer and unregister
HandleDisconnect(p) ==
    /\ EventTaken(p)
    /\ conns[p].active
    /\ peer_list' = peer_list \ {p}
    /\ conns' = [conns EXCEPT ![p] = close(@)]
    /\ availability' = remove_peer_availability(availability, conns[p])
    /\ selector' = selector \ {p}
    /\ sent' = {}
    /\ result' = Result("disconnected", <<p>>, <<>>, "None")
    /\ UNCHANGED <<pieces, downloaded_bytes, mmap, read_only, sha1_ok>>
    /\ UNCHANGED asked

\* _event_loop: recv_message returns None (no data): "continue"
HandleNoData(p) ==
    /\ EventTaken(p)
    /\ conns[p].active
    /\ conns' = [conns EXCEPT ![p] = recv_message(@, <<>>).conn]
    /\ sent' = {}
    /\ result' = Result("no_data", <<p>>, <<>>, "None")
    /\ UNCHANGED <<pieces, availability, downloaded_bytes, mmap, read_only, sha1_ok,
                   peer_list, selector>>
    /\ UNCHANGED asked

\* _event_loop: "if completed:", and a faulty test that takes any accepted block
AnyAccepted(ret) == ret # "None"
Completed(ret) == ret = "True"

\* what the dispatch on message_id leaves behind: the connections, the pieces, the
\* store, the writes made, and what block_received returned (for a piece message)
Dispatched(cs, ps, mm, dl, ro, ok, wrote, ret) ==
    [conns |-> cs, pieces |-> ps, mmap |-> mm, downloaded_bytes |-> dl, read_only |-> ro,
     sha1_ok |-> ok, wrote |-> wrote, ret |-> ret]
OnlyConns(cs, wrote) ==
    Dispatched(cs, pieces, mmap, downloaded_bytes, read_only, sha1_ok, wrote, "None")

\* _event_loop, message_id == 2 (interested)
on_interested(cs, p, oks) ==
    LET c == [cs[p] EXCEPT !.remote_interested = TRUE]
    IN  IF c.remote_choked
        THEN OnlyConns([cs EXCEPT ![p] = safe_send(c, oks[p])], {Write(p, Unchoke, oks[p])})
        ELSE OnlyConns([cs EXCEPT ![p] = c], {})

\* _event_loop, message_id == 3 (not interested)
on_not_interested(cs, p, oks) ==
    LET c == [cs[p] EXCEPT !.remote_interested = FALSE]
    IN  IF ~c.remote_choked
        THEN OnlyConns([cs EXCEPT ![p] = [safe_send(c, oks[p]) EXCEPT !.remote_choked = TRUE]],
                       {Write(p, Choke, oks[p])})
        ELSE OnlyConns([cs EXCEPT ![p] = c], {})

\* _event_loop, message_id == 4 (have)
on_have(cs, p, payload) ==
    LET piece_index == unpack_u32(payload)
    IN  OnlyConns([cs EXCEPT ![p].bitmap =
                      [ensure_bitmap(@, NumPieces) EXCEPT ![piece_index + 1] = 1]], {})

\* _event_loop, message_id == 5 (bitfield)
on_bitfield(cs, p, payload) ==
    OnlyConns([cs EXCEPT ![p].bitmap = ensure_bitmap(frombytes(payload), NumPieces)], {})

\* the request branch without "not peer.remote_choked"
on_request_while_choking(cs, p, payload, oks) ==
    LET index == unpack_u32(Slice(payload, 0, 4))
        start == unpack_u32(Slice(payload, 4, 8))
        length == unpack_u32(Slice(payload, 8, 12))
    IN  IF 0 <= index /\ index < NumPieces /\ pieces[index].is_complete
        THEN OnlyConns([cs EXCEPT ![p] = safe_send(@, oks[p])],
                       {Write(p, PieceMsg(index, start,
                                          storage_read(mmap, index * piece_length + start, length)),
                              oks[p])})
        ELSE OnlyConns(cs, {})

\* _event_loop, message_id == 6 (request)
on_request(cs, p, payload, oks) ==
    LET index == unpack_u32(Slice(payload, 0, 4))
        start == unpack_u32(Slice(payload, 4, 8))
        length == unpack_u32(Slice(payload, 8, 12))
    IN  IF ~cs[p].remote_choked /\ 0 <= index /\ index < NumPieces /\ pieces[index].is_complete
        THEN OnlyConns([cs EXCEPT ![p] = safe_send(@, oks[p])],
                       {Write(p, PieceMsg(index, start,
                                          storage_read(mmap, index * piece_length + start, length)),
                              oks[p])})
        ELSE OnlyConns(cs, {})

\* _event_loop, message_id == 7 (piece): block_received, the HAVE broadcast to every
\* active peer of the peer list, and the switch to seeding when finished
on_piece_result(cs, index, block, r, verified, ps, targets, oks) ==
    Dispatched([q \in Peers |-> IF q \in targets
                                THEN send_have(cs[q], q, index, oks[q]).conn
                                ELSE cs[q]],
               ps, r.mmap, count_downloaded(downloaded_bytes, r.ret, block),
               read_only \/ (Completed(r.ret) /\ is_finished(ps)),
               IF verified THEN sha1_ok \cup {index} ELSE sha1_ok,
               UNION {send_have(cs[q], q, index, oks[q]).wrote : q \in targets},
               r.ret)
on_piece_block(cs, index, block, r, verified, oks) ==
    on_piece_result(cs, index, block, r, verified, [pieces EXCEPT ![index] = r.piece],
                    IF Completed(r.ret) THEN {q \in peer_list : cs[q].active} ELSE {}, oks)
on_piece(cs, p, payload, oks) ==
    LET index == unpack_u32(Slice(payload, 0, 4))
        begin == unpack_u32(Slice(payload, 4, 8))
        block == Slice(payload, 8, Len(payload))
    IN  on_piece_block(cs, index, block,
                       piece_block_received(pieces[index], mmap, index, begin, block),
                       Sha1Succeeds(pieces[index], index, begin, block), oks)

\* _event_loop: the dispatch on message_id
on_message(cs, p, msg, oks) ==
    IF HasId(msg, 0) THEN OnlyConns([cs EXCEPT ![p].choked = TRUE], {})
    ELSE IF HasId(msg, 1) THEN OnlyConns([cs EXCEPT ![p].choked = FALSE], {})
    ELSE IF HasId(msg, 2) THEN on_interested(cs, p, oks)
    ELSE IF HasId(msg, 3) THEN on_not_interested(cs, p, oks)
    ELSE IF HasId(msg, 4) THEN on_have(cs, p, msg.payload)
    ELSE IF HasId(msg, 5) THEN on_bitfield(cs, p, msg.payload)
    ELSE IF HasId(msg, 6) THEN on_request(cs, p, msg.payload, oks)
    ELSE IF HasId(msg, 7) THEN on_piece(cs, p, msg.payload, oks)
    ELSE OnlyConns(cs, {})

\* the messages remote peers send to the engine
FullBitfield == Bitfield(tobytes([k \in 1..NumPieces |-> 1]))
EngineMsgs ==
    {KeepAlive, Choke, Unchoke, Interested, NotInterested, FullBitfield,
     Request(0, 0, BlockLength(0, 1))}
    \cup {Have(i) : i \in PieceIdx}
    \cup {PieceMsg(r[1], BlockOffset(r[2]), GoodData(r[1], r[2])) : r \in BlockRefs}
    \cup {PieceMsg(r[1], BlockOffset(r[2]), Zeros(BlockLength(r[1], r[2]))) : r \in BlockRefs}

\* the outcomes of the socket sends a handler makes, per peer written to
AllOk == [q \in Peers |-> TRUE]
SendOutcomes(m) ==
    IF HasId(m, 2) \/ HasId(m, 6) \/ HasId(m, 7) THEN [Peers -> BOOLEAN] ELSE {AllOk}

\* _event_loop: the dispatch raises IndexError: "peer.bitmap[piece_index] = 1" with
\* piece_index beyond the bitmap (a bitmap built from a bitfield message has a multiple
\* of 8 bits, which can be more than the number of pieces), or
\* "self.pieces[piece_index]" in PieceManager.block_received with piece_index beyond
\* the pieces
raises_IndexError(c, msg) ==
    \/ HasId(msg, 4) /\ unpack_u32(msg.payload) >= Len(ensure_bitmap(c.bitmap, NumPieces))
    \/ HasId(msg, 7) /\ unpack_u32(Slice(msg.payload, 0, 4)) >= NumPieces

\* _event_loop: recv_message returns message m from peer p and the dispatch raises
\* IndexError. Nothing in _event_loop, download() or the thread that runs it catches
\* the exception: the thread running the loop ends. recv_message and ensure_bitmap
\* have acted on the connection before the raise.
HandleRaise(p, m) ==
    /\ TakeEvent(p, "raised")
    /\ conns[p].active
    /\ raises_IndexError(conns[p], m)
    /\ \E rm \in {recv_message(conns[p], Encode(m))} :
          conns' = [conns EXCEPT ![p] =
                       IF HasId(m, 4)
                       THEN [rm.conn EXCEPT !.bitmap = ensure_bitmap(@, NumPieces)]
                       ELSE rm.conn]
    /\ sent' = {}
    /\ result' = Result("raise", <<p>>, <<>>, "None")
    /\ UNCHANGED <<pieces, availability, downloaded_bytes, mmap, read_only, sha1_ok,
                   peer_list, selector>>
    /\ UNCHANGED asked

\* _event_loop: the dispatch of message msg of peer p (m as the peer sent it) over the
\* connections cs, then the request scheduling ("if (not peer.choked) and peer.bitmap")
DispatchAs(p, m, msg, cs, arg) ==
    /\ \E oks \in SendOutcomes(m) :
       \E d \in {on_message(cs, p, msg, oks)} :
       \E cand \in {IF msg.type = "message" /\ ~d.conns[p].choked /\ d.conns[p].bitmap # <<>>
                     THEN RarestFirstPieces(d.pieces, availability, d.conns[p].bitmap)
                     ELSE {}} :
         /\ mmap' = d.mmap
         /\ downloaded_bytes' = d.downloaded_bytes
         /\ read_only' = d.read_only
         /\ sha1_ok' = d.sha1_ok
         /\ \/ /\ cand = {}
               /\ pieces' = d.pieces
               /\ conns' = d.conns
               /\ sent' = d.wrote
               /\ asked' = asked
               /\ result' = Result("message", arg, <<>>, d.ret)
            \/ \E i \in cand, okr \in BOOLEAN :
               \E blk \in {next_block_ret(d.pieces, i)} :
               \E s \in {send_request(d.conns[p], p, blk[1], BlockOffset(blk[2]),
                                      BlockLength(blk[1], blk[2]), okr)} :
                 /\ pieces' = next_block_pieces(d.pieces, i, now)
                 /\ conns' = [d.conns EXCEPT ![p] = s.conn]
                 /\ sent' = d.wrote \cup s.wrote
                 /\ asked' = IF s.ret = "True" THEN [asked EXCEPT ![blk] = p] ELSE asked
                 /\ result' = Result("message", arg, blk, d.ret)
    /\ UNCHANGED <<availability, peer_list, selector>>

\* _event_loop: recv_message returns message m from peer p, and the dispatch follows
HandleMessageAs(p, m, arg) ==
    /\ EventTaken(p)
    /\ conns[p].active
    /\ ~raises_IndexError(conns[p], m)
    /\ \E rm \in {recv_message(conns[p], Encode(m))} :
          DispatchAs(p, m, rm.msg, [conns EXCEPT ![p] = rm.conn], arg)
HandleMessage(p, m) == HandleMessageAs(p, m, <<p>>)
\* the same step, the message kept in the record of the step
HandleMessageOf(p, m) == HandleMessageAs(p, m, <<p, m>>)

(***************************************************************************)
(* Spec: the engine: TorrentClient.__init__, then download(): _setup_peers *)
(* and _event_loop.                                                        *)
(***************************************************************************)
Next ==
    \/ \E alive \in SUBSET Peers : \E okset \in SUBSET alive : SetupPeers(alive, okset)
    \/ LoopExit
    \/ \E batch \in SUBSET selector : LoopSelect(batch)
    \/ \E p \in Peers : HandleInactive(p)
    \/ \E p \in Peers : HandleDisconnect(p)
    \/ \E p \in Peers : HandleNoData(p)
    \/ \E p \in Peers, m \in EngineMsgs : HandleMessage(p, m)
    \/ AdvanceTime

Spec == InitEngine /\ [][Next]_vars

(***************************************************************************)
(* SpecPause: the engine with pause() and resume() called from another     *)
(* thread at any moment. SpecPauseFair adds that the engine thread, once   *)
(* notified, runs.                                                         *)
(***************************************************************************)
\* the messages remote peers send in SpecPause
PauseMsgs ==
    {Unchoke, FullBitfield}
    \cup {PieceMsg(r[1], BlockOffset(r[2]), GoodData(r[1], r[2])) : r \in BlockRefs}

NextPause ==
    \/ \E alive \in SUBSET Peers : \E okset \in SUBSET alive : SetupPeers(alive, okset)
    \/ LoopExit
    \/ \E batch \in SUBSET selector : LoopSelect(batch)
    \/ LoopWait
    \/ \E batch \in SUBSET selector : LoopWake(batch)
    \/ Pause
    \/ Resume
    \/ \E p \in Peers : HandleInactive(p)
    \/ \E p \in Peers : HandleDisconnect(p)
    \/ \E p \in Peers : HandleNoData(p)
    \/ \E p \in Peers, m \in PauseMsgs : HandleMessage(p, m)
    \/ AdvanceTime

SpecPause == InitEngine /\ [][NextPause]_vars

SpecPauseFair == SpecPause /\ WF_vars(\E batch \in SUBSET selector : LoopWake(batch))

(***************************************************************************)
(* SpecBad: the engine with peers that also send have and piece messages   *)
(* whose piece index is the number of pieces (the first index out of       *)
(* range).                                                                 *)
(***************************************************************************)
BadMsgs ==
    {Unchoke, FullBitfield, Have(0), Have(NumPieces),
     PieceMsg(0, 0, GoodData(0, 1)), PieceMsg(NumPieces, 0, GoodData(0, 1))}

NextBad ==
    \/ \E alive \in SUBSET Peers : \E okset \in SUBSET alive : SetupPeers(alive, okset)
    \/ LoopExit
    \/ \E batch \in SUBSET selector : LoopSelect(batch)
    \/ \E p \in Peers : HandleInactive(p)
    \/ \E p \in Peers : HandleDisconnect(p)
    \/ \E p \in Peers : HandleNoData(p)
    \/ \E p \in Peers, m \in BadMsgs : HandleMessage(p, m)
    \/ \E p \in Peers, m \in BadMsgs : HandleRaise(p, m)
    \/ AdvanceTime

SpecBad == InitEngine /\ [][NextBad]_vars

(***************************************************************************)
(* SpecReconnect: download() with its retry worker: _setup_peers with the  *)
(* failures connect_all records, start_retry_worker, then the event loop   *)
(* while the worker thread retries the failed peers. SpecReconnectFair     *)
(* adds that both threads keep running.                                    *)
(***************************************************************************)
\* download() up to the event loop: _setup_peers (PeerManager.__init__ on the tracker's
\* peers, connect_all, register and greet the connected peers), start_retry_worker
Download(alive, okset) ==
    /\ phase = "constructed"
    /\ okset \subseteq alive
    /\ peer_list' = alive
    /\ selector' = alive
    /\ conns' = [p \in Peers |-> IF p \in alive THEN safe_send(Connected, p \in okset)
                                 ELSE NewConn]
    /\ sent' = UNION {{Write(p, Interested, p \in okset),
                       Write(p, Bitfield(generate_bitfield(pieces)), p \in okset)} : p \in alive}
    /\ attempted' = Peers
    /\ failed_peers' = connect_counts(failed_peers, Peers, alive)
    /\ next_retry_time' = connect_times(failed_peers, next_retry_time, Peers, alive, now)
    /\ worker' = "idle"
    /\ stop_event' = FALSE
    /\ phase' = "loop"
    /\ result' = Result("download", <<>>, <<>>, "None")
    /\ UNCHANGED <<pieces, availability, inflight_by_peer, downloaded_bytes, mmap, read_only,
                   now, sha1_ok, wire, stream, emitted, partial_seen, events, was_finished,
                   handled, storevars, asked, pausevars, completed_on, trackervars, in_hand, worker_retry, shutdown>>

ReconnectMsgs == {Unchoke, FullBitfield}

NextReconnect ==
    \/ \E alive \in SUBSET Peers : \E okset \in SUBSET alive : Download(alive, okset)
    \/ LoopExit
    \/ \E batch \in SUBSET selector : LoopSelect(batch)
    \/ \E p \in Peers : HandleInactive(p)
    \/ \E p \in Peers : HandleDisconnect(p)
    \/ \E p \in Peers : HandleNoData(p)
    \/ \E p \in Peers, m \in ReconnectMsgs : HandleMessage(p, m)
    \/ WorkerBegin
    \/ \E ok \in SUBSET Peers : WorkerFinish(ok)
    \/ AdvanceTime

SpecReconnect == InitEngine /\ [][NextReconnect]_vars

\* the engine thread handles the event of some peer of the batch
HandleEvent ==
    \E p \in Peers :
        \/ HandleInactive(p)
        \/ HandleDisconnect(p)
        \/ HandleNoData(p)
        \/ \E m \in ReconnectMsgs : HandleMessage(p, m)

SpecReconnectFair ==
    /\ SpecReconnect
    /\ WF_vars(\E batch \in SUBSET selector : LoopSelect(batch))
    /\ WF_vars(HandleEvent)
    /\ WF_vars(WorkerBegin)
    /\ WF_vars(\E ok \in SUBSET Peers : WorkerFinish(ok))

(***************************************************************************)
(* SpecWriters: SpecReconnect with announce_now() run by the thread that   *)
(* the /reannounce handler starts.                                         *)
(***************************************************************************)
\* TorrentClient.announce_now in its own thread: the tracker's peers that are not in the
\* peer list are tried by a new PeerManager; those in `alive` connect, are registered,
\* greeted (the write succeeds for those in `okset`) and added to the peer list
AnnounceNow(alive, okset) ==
    /\ phase \in {"loop", "events"}
    /\ alive # {}
    /\ alive \subseteq Peers \ peer_list
    /\ okset \subseteq alive
    /\ selector' = selector \cup alive
    /\ peer_list' = peer_list \cup alive
    /\ conns' = [p \in Peers |-> IF p \in alive THEN safe_send(Connected, p \in okset)
                                 ELSE conns[p]]
    /\ sent' = {Write(p, Interested, p \in okset) : p \in alive}
    /\ result' = Result("announce_now", <<>>, <<>>, "None")
    /\ UNCHANGED <<pieces, availability, inflight_by_peer, downloaded_bytes, mmap, read_only,
                   now, sha1_ok, wire, stream, emitted, partial_seen, phase, events,
                   was_finished, handled, ctlvars>>

NextWriters ==
    \/ \E alive \in SUBSET Peers : \E okset \in SUBSET alive : Download(alive, okset)
    \/ LoopExit
    \/ \E batch \in SUBSET selector : LoopSelect(batch)
    \/ \E p \in Peers : HandleInactive(p)
    \/ \E p \in Peers : HandleDisconnect(p)
    \/ \E p \in Peers : HandleNoData(p)
    \/ \E p \in Peers, m \in ReconnectMsgs : HandleMessage(p, m)
    \/ WorkerBegin
    \/ \E ok \in SUBSET Peers : WorkerFinish(ok)
    \/ \E alive \in SUBSET Peers : \E okset \in SUBSET alive : AnnounceNow(alive, okset)
    \/ AdvanceTime

SpecWriters == InitEngine /\ [][NextWriters]_vars

(***************************************************************************)
(* SpecUpload: the engine with peers that send interested, not interested  *)
(* and requests for a block of every piece and of the first index out of   *)
(* range; the message of each dispatch is kept.                            *)
(***************************************************************************)
UploadMsgs ==
    {Interested, NotInterested} \cup {Request(i, 0, block_size) : i \in 0..NumPieces}

NextUpload ==
    \/ \E alive \in SUBSET Peers : \E okset \in SUBSET alive : SetupPeers(alive, okset)
    \/ LoopExit
    \/ \E batch \in SUBSET selector : LoopSelect(batch)
    \/ \E p \in Peers : HandleInactive(p)
    \/ \E p \in Peers : HandleDisconnect(p)
    \/ \E p \in Peers : HandleNoData(p)
    \/ \E p \in Peers, m \in UploadMsgs : HandleMessageOf(p, m)
    \/ AdvanceTime

SpecUpload == InitEngine /\ [][NextUpload]_vars

(***************************************************************************)
(* SpecRemove: the engine, its position between recv_message and the       *)
(* dispatch made visible, and the /remove handler run by another thread at *)
(* any moment.                                                             *)
(***************************************************************************)
\* _event_loop: "msg = peer.recv_message()" returns message m from peer p; the dispatch
\* has not started
ReceiveMessage(p, m) ==
    /\ phase = "events"
    /\ p \in events
    /\ handled < MaxEvents
    /\ conns[p].active
    /\ ~raises_IndexError(conns[p], m)
    /\ handled' = handled + 1
    /\ events' = events \ {p}
    /\ phase' = "dispatch"
    /\ \E rm \in {recv_message(conns[p], Encode(m))} :
          /\ conns' = [conns EXCEPT ![p] = rm.conn]
          /\ in_hand' = <<p, rm.msg>>
    /\ sent' = {}
    /\ result' = Result("recv_message", <<p>>, <<>>, "None")
    /\ UNCHANGED <<pieces, availability, inflight_by_peer, downloaded_bytes, mmap, read_only,
                   now, sha1_ok, wire, stream, emitted, partial_seen, peer_list, selector,
                   was_finished, asked, ctl_not_asked_in_hand>>

\* the message in hand is a piece message whose block Piece.block_received would store
StoresInHand ==
    /\ in_hand # <<>>
    /\ HasId(in_hand[2], 7)
    /\ LET payload == in_hand[2].payload
           index == unpack_u32(Slice(payload, 0, 4))
       IN  ~Ignored(pieces[index], index, unpack_u32(Slice(payload, 4, 8)),
                    Slice(payload, 8, Len(payload)))

\* _event_loop: the dispatch of the message in hand, then the request scheduling
DispatchInHand ==
    /\ phase = "dispatch"
    /\ ~(StoresInHand /\ mapped = "closed")
    /\ phase' = IF events = {} THEN "loop" ELSE "events"
    /\ in_hand' = <<>>
    /\ DispatchAs(in_hand[1], in_hand[2], in_hand[2], conns, <<in_hand[1]>>)
    /\ UNCHANGED <<inflight_by_peer, now, wire, stream, emitted, partial_seen, events,
                   was_finished, handled, ctl_not_asked_in_hand>>

\* _event_loop: the dispatch of a piece message reaches PieceStorage.write after
\* PieceStorage.cleanup has closed the map: "self._mmap[start: start + len(data)] = data"
\* raises ValueError, which nothing catches: the thread running the loop ends
DispatchClosed ==
    /\ phase = "dispatch"
    /\ StoresInHand
    /\ mapped = "closed"
    /\ phase' = "raised"
    /\ in_hand' = <<>>
    /\ sent' = {}
    /\ result' = Result("raise", <<in_hand[1]>>, <<>>, "None")
    /\ UNCHANGED <<pieces, availability, inflight_by_peer, downloaded_bytes, mmap, read_only,
                   now, sha1_ok, conns, wire, stream, emitted, partial_seen, peer_list,
                   selector, events, was_finished, handled, asked, ctl_not_asked_in_hand>>

\* the /remove handler, run by a thread of the server: torrent.pause(), then
\* torrent.cleanup(): PieceStorage.cleanup, PeerManager.close_all, stop_retry_worker
\* (the retry worker, idle, sees the stop event and ends; the join returns)
RemoveTorrent ==
    /\ phase \in {"loop", "events", "dispatch", "waiting"}
    /\ shutdown = "none"
    /\ worker = "idle"
    /\ paused' = TRUE
    /\ mapped' = "closed"
    /\ conns' = [p \in Peers |-> IF p \in peer_list THEN close(conns[p]) ELSE conns[p]]
    /\ availability' = close_all_availability(availability, peer_list)
    /\ peer_list' = {}
    /\ failed_peers' = [p \in Peers |-> 0]
    /\ next_retry_time' = [p \in Peers |-> NoTime]
    /\ stop_event' = TRUE
    /\ worker' = "exited"
    /\ shutdown' = "returned"
    /\ sent' = {}
    /\ result' = Result("remove", <<>>, <<>>, "None")
    /\ UNCHANGED <<pieces, inflight_by_peer, downloaded_bytes, mmap, read_only, now, sha1_ok,
                   wire, stream, emitted, partial_seen, selector, phase, events,
                   was_finished, handled, attempted, fs, is_multifile, asked, notified,
                   completed_on, trackervars, in_hand, worker_retry>>

RemoveMsgs ==
    {Unchoke, FullBitfield}
    \cup {PieceMsg(r[1], BlockOffset(r[2]), GoodData(r[1], r[2])) : r \in BlockRefs}

NextRemove ==
    \/ \E alive \in SUBSET Peers : \E okset \in SUBSET alive : Download(alive, okset)
    \/ LoopExit
    \/ \E batch \in SUBSET selector : LoopSelect(batch)
    \/ LoopWait
    \/ \E p \in Peers : HandleInactive(p)
    \/ \E p \in Peers, m \in RemoveMsgs : ReceiveMessage(p, m)
    \/ DispatchInHand
    \/ DispatchClosed
    \/ RemoveTorrent

SpecRemove == InitEngine /\ [][NextRemove]_vars

(***************************************************************************)
(* SpecProgress: the engine with a cooperative peer (peer 1: it advertises *)
(* every piece, unchokes, and answers every request made of it with the    *)
(* right data, and sends nothing else) and another peer that may unchoke,  *)
(* choke, advertise, disconnect or stay silent. select() reports peer 1    *)
(* exactly when it has something to deliver. SpecProgressFair adds that    *)
(* the engine thread keeps running and that time passes.                   *)
(***************************************************************************)
\* the cooperative peer: the first of the peers
GoodPeer == CHOOSE p \in Peers : \A q \in Peers : p <= q
\* the blocks the cooperative peer has been asked for and has not yet delivered
Owed == {r \in BlockRefs : asked[r] = GoodPeer /\ ~pieces[r[1]].blocks[r[2]].is_received
                              /\ ~pieces[r[1]].is_complete}
\* what the cooperative peer has to deliver
GoodPending ==
    (IF conns[GoodPeer].bitmap = <<>> THEN {FullBitfield} ELSE {})
    \cup (IF conns[GoodPeer].choked THEN {Unchoke} ELSE {})
    \cup {PieceMsg(r[1], BlockOffset(r[2]), GoodData(r[1], r[2])) : r \in Owed}
\* what the other peer may send
OtherMsgs == {Choke, Unchoke, FullBitfield}

\* _event_loop: the top of one iteration; the socket of the cooperative peer is
\* readable exactly when it has something to deliver
ProgressSelect ==
    \E batch \in SUBSET selector :
        /\ (GoodPeer \in batch) = (GoodPeer \in selector /\ conns[GoodPeer].active
                                     /\ GoodPending # {})
        /\ LoopSelect(batch)

\* the count of handled events bounds the other specifications; here the engine
\* handles any number of events, and the count starts again at any time
ForgetHandled ==
    /\ handled > 0
    /\ handled' = 0
    /\ UNCHANGED <<pmvars, peervars, peer_list, selector, phase, events, was_finished,
                   ctlvars>>

\* the steps of the engine thread in SpecProgress
EngineProgress ==
    \/ \E alive \in SUBSET Peers : \E okset \in SUBSET alive : SetupPeers(alive, okset)
    \/ LoopExit
    \/ ProgressSelect
    \/ \E p \in Peers : HandleInactive(p)
    \/ \E p \in Peers \ {GoodPeer} : HandleDisconnect(p)
    \/ \E p \in Peers \ {GoodPeer} : HandleNoData(p)
    \/ \E m \in GoodPending : HandleMessage(GoodPeer, m)
    \/ \E p \in Peers \ {GoodPeer}, m \in OtherMsgs : HandleMessage(p, m)

NextProgress ==
    \/ EngineProgress
    \/ ForgetHandled
    \/ AdvanceTime

SpecProgress == InitEngine /\ [][NextProgress]_vars

\* the engine thread has a step to take: it is starting, at the top of an iteration,
\* or has an event of the batch left to handle
EngineReady ==
    \/ phase \in {"constructed", "loop"}
    \/ phase = "events" /\ handled < MaxEvents

\* the engine thread keeps running (weak fairness of EngineProgress, with its enabling
\* condition written out as EngineReady) and time passes
SpecProgressFair ==
    /\ SpecProgress
    /\ (<>[]EngineReady => []<><<EngineProgress>>_vars)
    /\ WF_vars(ForgetHandled)
    /\ WF_vars(AdvanceTime)

(***************************************************************************)
(* SpecLate: the engine with peers that choke, unchoke, advertise every    *)
(* piece and send piece messages for any block at any moment, with the     *)
(* right or the wrong data; the message of each dispatch is kept.          *)
(***************************************************************************)
LateMsgs ==
    {Choke, Unchoke, FullBitfield}
    \cup {PieceMsg(r[1], BlockOffset(r[2]), GoodData(r[1], r[2])) : r \in BlockRefs}
    \cup {PieceMsg(r[1], BlockOffset(r[2]), Zeros(BlockLength(r[1], r[2]))) : r \in BlockRefs}

NextLate ==
    \/ \E alive \in SUBSET Peers : \E okset \in SUBSET alive : SetupPeers(alive, okset)
    \/ LoopExit
    \/ \E batch \in SUBSET selector : LoopSelect(batch)
    \/ \E p \in Peers : HandleInactive(p)
    \/ \E p \in Peers : HandleDisconnect(p)
    \/ \E p \in Peers : HandleNoData(p)
    \/ \E p \in Peers, m \in LateMsgs : HandleMessageOf(p, m)
    \/ AdvanceTime

SpecLate == InitEngine /\ [][NextLate]_vars

(***************************************************************************)
(* Properties of the Piece / PieceManager API.                             *)
(***************************************************************************)
Block(r) == pieces[r[1]].blocks[r[2]]
BlockAfter(r) == pieces'[r[1]].blocks[r[2]]

\* the step is a call of the named operation (AdvanceTime is the one step that leaves
\* result as the last call set it)
Called(op) == now' = now /\ result'.op = op

\* C1: at most one in-flight request per block. A block handed out by next_block or
\* next_request_rarest_first was neither requested nor received before the call and is
\* requested, with request_time the time of the call, after it; and a block leaves the
\* requested or received state only by a timeout in tick, by on_choke or by a
\* hash-failure reset of its piece.
C1_OneRequestPerBlock ==
    [][ \A r \in BlockRefs :
          /\ ((Called("next_block") \/ Called("next_request_rarest_first"))
                 /\ result'.block = r) =>
                /\ ~Block(r).is_requested /\ ~Block(r).is_received
                /\ BlockAfter(r).is_requested /\ BlockAfter(r).request_time = now
          /\ ((Block(r).is_requested /\ ~BlockAfter(r).is_requested)
               \/ (Block(r).is_received /\ ~BlockAfter(r).is_received)) =>
                \/ Called("tick") /\ TimedOut(Block(r), now)
                \/ Called("on_choke")
                \/ /\ Called("block_received") /\ result'.ret = "False"
                   /\ \A k \in 1..NumBlocks(r[1]) : pieces'[r[1]].blocks[k] = NewBlock
      ]_pmvars

\* C1 witness: a block has just been handed out by next_request_rarest_first while
\* another block is received and a third is still requested from an earlier time.
C1_Witness ==
    /\ result.op = "next_request_rarest_first"
    /\ result.block \in BlockRefs
    /\ Block(result.block).is_requested /\ Block(result.block).request_time = now
    /\ \E r \in BlockRefs : Block(r).is_received
    /\ \E r \in BlockRefs : r # result.block /\ Block(r).is_requested
                              /\ ~Block(r).is_received /\ Block(r).request_time < now

\* C6: every availability counter is >= 0 after any sequence of add_have, add_bitmap
\* and peer_disconnect calls.
C6_AvailabilityNonNegative == \A x \in AvailIdx : availability[x] >= 0

\* C6 witness: peer_disconnect has just been called with a bitmap that has a bit set
\* whose counter is 0 and a bit set whose counter is still positive.
C6_Witness ==
    /\ result.op = "peer_disconnect"
    /\ \E x \in PieceIdx : result.arg[x + 1] = 1 /\ availability[x] = 0
    /\ \E y \in PieceIdx : result.arg[y + 1] = 1 /\ availability[y] > 0

\* a candidate piece of a call with the given bitmap, and a piece with a free block
Candidate(i, bitmap) == ~pieces[i].is_complete /\ bitmap[i + 1] = 1
HasFreeBlock(i) ==
    \E k \in 1..NumBlocks(i) : ~pieces[i].blocks[k].is_requested /\ ~pieces[i].blocks[k].is_received
\* no candidate piece is rarer than piece i
Rarer(i, bitmap) == \A j \in PieceIdx : Candidate(j, bitmap) => availability[i] <= availability[j]

\* C8: rarest-first. If a candidate piece (not complete, in the peer's bitmap) of minimum
\* availability has a free block, next_request_rarest_first returns a block of a
\* candidate piece of minimum availability; it never returns a block of a piece that is
\* complete or absent from the bitmap.
C8_RarestFirst ==
    [][ Called("next_request_rarest_first") =>
          /\ result'.block # <<>> => Candidate(result'.block[1], result'.arg)
          /\ (\E i \in PieceIdx : /\ Candidate(i, result'.arg) /\ HasFreeBlock(i)
                                   /\ Rarer(i, result'.arg)) =>
                /\ result'.block # <<>>
                /\ Rarer(result'.block[1], result'.arg)
      ]_pmvars

\* C8 witness: the call returned a block of a piece that is rarer than another piece of
\* the peer's bitmap that is not complete and has a free block.
C8_Witness ==
    /\ result.op = "next_request_rarest_first"
    /\ result.block \in BlockRefs
    /\ \E j \in PieceIdx :
          /\ j # result.block[1]
          /\ Candidate(j, result.arg) /\ HasFreeBlock(j)
          /\ availability[result.block[1]] < availability[j]

\* every received block of piece i holds its correct data in the reassembly buffer
CorrectSoFar(i) ==
    \A k \in 1..NumBlocks(i) :
        pieces[i].blocks[k].is_received =>
            Slice(pieces[i].buffer, BlockOffset(k), BlockOffset(k) + BlockLength(i, k)) = GoodData(i, k)
\* block k is the only block of piece i not yet received
LastMissing(i, k) ==
    /\ ~pieces[i].blocks[k].is_received
    /\ \A j \in 1..NumBlocks(i) : j # k => pieces[i].blocks[j].is_received

\* C9: piece verification. While every block of a piece is delivered with its correct
\* data, block_received returns false for each block but the one that completes the
\* piece and true for that one; is_complete becomes true exactly at that call, and the
\* reassembly buffer is released then.
C9_PieceVerification ==
    [][ \A r \in BlockRefs :
          ( /\ Called("block_received")
            /\ ~pieces[r[1]].is_complete
            /\ ~Block(r).is_received
            /\ CorrectSoFar(r[1])
            /\ PieceBlockReceived(r[1], BlockOffset(r[2]), GoodData(r[1], r[2])) ) =>
          /\ result'.ret = IF LastMissing(r[1], r[2]) THEN "True" ELSE "False"
          /\ pieces'[r[1]].is_complete = LastMissing(r[1], r[2])
          /\ LastMissing(r[1], r[2]) => pieces'[r[1]].buffer = <<>>
          /\ ~LastMissing(r[1], r[2]) => pieces'[r[1]].buffer # <<>>
      ]_pmvars

\* C9 witness: block_received has just returned true for a piece of two or more blocks.
C9_Witness ==
    /\ result.op = "block_received" /\ result.ret = "True"
    /\ \E i \in PieceIdx :
          /\ NumBlocks(i) >= 2
          /\ pieces[i].is_complete /\ pieces[i].buffer = <<>>
          /\ \A j \in PieceIdx : j # i => ~pieces[j].is_complete /\ pieces[j].blocks_received = 0

\* the blocks that n successive next_block calls on a piece with these blocks return
RECURSIVE Drain(_, _, _)
Drain(blocks, t, n) ==
    IF n = 0 THEN <<>>
    ELSE LET k == FirstFree(blocks)
         IN  <<k>> \o Drain(IF k = 0 THEN blocks ELSE [blocks EXCEPT ![k] = set_requested(@, t)],
                            t, n - 1)

\* C10: hash-mismatch reset. In every reachable state, when block_received is called with
\* the last missing block of a piece and the reassembled data is not the piece's
\* content, the call returns false, is_complete stays false, every block is unrequested
\* and unreceived with no request_time, _blocks_received is 0, and next_block hands out
\* every block again.
C10_HashMismatchReset ==
    \A r \in BlockRefs :
      (~pieces[r[1]].is_complete /\ LastMissing(r[1], r[2])) =>
        \A data \in Datas :
          ( /\ Len(data) = BlockLength(r[1], r[2])
            /\ SliceAssign(pieces[r[1]].buffer, BlockOffset(r[2]),
                           BlockOffset(r[2]) + Len(data), data) # PieceContent(r[1]) ) =>
          LET after == piece_block_received(pieces[r[1]], mmap, r[1], BlockOffset(r[2]), data)
          IN  /\ after.ret = "False"
              /\ ~after.piece.is_complete
              /\ \A k \in 1..NumBlocks(r[1]) :
                    /\ ~after.piece.blocks[k].is_requested
                    /\ ~after.piece.blocks[k].is_received
                    /\ after.piece.blocks[k].request_time = NoTime
              /\ after.piece.blocks_received = 0
              /\ Drain(after.piece.blocks, now, NumBlocks(r[1]))
                    = [k \in 1..NumBlocks(r[1]) |-> k]

\* C10 witness: block_received has just returned false on a piece of two or more blocks
\* that holds delivered data in its buffer and has every block free again.
C10_Witness ==
    /\ result.op = "block_received" /\ result.ret = "False"
    /\ \E i \in PieceIdx :
          /\ NumBlocks(i) >= 2
          /\ ~pieces[i].is_complete /\ pieces[i].blocks_received = 0
          /\ pieces[i].buffer # Zeros(PieceLen(i))
          /\ \A k \in 1..NumBlocks(i) : pieces[i].blocks[k] = NewBlock
          /\ \A j \in PieceIdx : j # i => pieces[j] = NewPiece(j)

(***************************************************************************)
(* Properties of PeerConnection.                                           *)
(***************************************************************************)
\* C4: in-flight cap. For every peer 0 <= inflight <= MAX_INFLIGHT in every state; a
\* send_request made when inflight = MAX_INFLIGHT or when the peer is inactive returns
\* false, writes nothing and leaves inflight unchanged; and a send_request whose socket
\* send fails returns false and leaves inflight unchanged.
C4_InflightCap ==
    /\ [](\A p \in Peers : conns[p].inflight >= 0 /\ conns[p].inflight <= MAX_INFLIGHT)
    /\ [][ \A p \in Peers :
             (Called("send_request") /\ result'.arg = <<p>>) =>
               /\ (conns[p].inflight = MAX_INFLIGHT \/ ~conns[p].active) =>
                     /\ result'.ret = "False"
                     /\ sent' = {}
                     /\ conns'[p].inflight = conns[p].inflight
               /\ (\E w \in sent' : ~w.ok) =>
                     /\ result'.ret = "False"
                     /\ conns'[p].inflight = conns[p].inflight
               /\ result'.ret = "True" =>
                     /\ conns'[p].inflight = conns[p].inflight + 1
                     /\ \E w \in sent' : w.ok /\ w.to = p /\ w.msg.id = 6
       ]_vars

\* C4 witness: send_request has just been refused on an active connection whose
\* in-flight count is at the cap.
C4_Witness ==
    /\ result.op = "send_request" /\ result.ret = "False"
    /\ sent = {}
    /\ \E p \in Peers : /\ result.arg = <<p>>
                        /\ conns[p].active
                        /\ conns[p].inflight = MAX_INFLIGHT

IsPrefix(s, t) == Len(s) <= Len(t) /\ SubSeq(t, 1, Len(s)) = s

\* the messages of a byte stream, parsed at once
RECURSIVE OneShotParse(_)
OneShotParse(bytes) ==
    IF Len(bytes) < 4 THEN <<>>
    ELSE LET length == unpack_u32(SubSeq(bytes, 1, 4))
         IN  IF length = 0
             THEN <<KeepAlive>> \o OneShotParse(SubSeq(bytes, 5, Len(bytes)))
             ELSE IF Len(bytes) < 4 + length THEN <<>>
             ELSE <<Message(bytes[5], SubSeq(bytes, 6, 4 + length))>>
                      \o OneShotParse(SubSeq(bytes, 5 + length, Len(bytes)))

\* the stream has been delivered and a further call of the parser returns nothing
Drained == wire = <<>> /\ \A p \in peer_list : parse_one(conns[p]).msg.type = "None"

\* C7: framing parser equivalence. However the stream is split into chunks, the messages
\* the incremental parser has returned are a prefix of the messages of the whole stream
\* parsed at once, and they are exactly those messages once the stream is delivered and
\* the parser returns nothing more.
C7_ParserEquivalence ==
    /\ IsPrefix(emitted, OneShotParse(stream))
    /\ Drained => emitted = OneShotParse(stream)

\* C7 witness: a stream of a keep-alive and a message with a payload has been parsed
\* to its end, and some chunk ended inside a message.
C7_Witness ==
    /\ Drained
    /\ partial_seen
    /\ Len(emitted) >= 2
    /\ emitted = OneShotParse(stream)
    /\ \E k \in 1..Len(emitted) : emitted[k].type = "keep-alive"
    /\ \E k \in 1..Len(emitted) : emitted[k].type = "message" /\ emitted[k].payload # <<>>

(***************************************************************************)
(* Properties of the engine.                                               *)
(***************************************************************************)
\* C2: completion implies verification. In every state of the engine, under both
\* start-up modes, a piece has is_complete = true only if a SHA-1 check of the piece's
\* full content against its expected hash has succeeded.
C2_CompletionImpliesVerification ==
    \A i \in PieceIdx : pieces[i].is_complete => i \in sha1_ok

\* a HAVE for piece i is written to the socket of peer q in this step (sent is left
\* as the last handler set it while time passes)
HaveWritten(q, i) == now' = now /\ \E w \in sent' : w.to = q /\ w.msg = Have(i)
\* piece i becomes complete in this step
BecomesComplete(i) == ~pieces[i].is_complete /\ pieces'[i].is_complete

\* C3: a HAVE for piece i is written only in the step in which block_received returned
\* true for piece i and the piece became complete; in that step a HAVE for i is written
\* to every peer that is active; no HAVE is written for a piece that is incomplete or
\* whose last block failed the hash check.
C3_HaveAfterCompletion ==
    [][ \A i \in PieceIdx :
          /\ (\E q \in Peers : HaveWritten(q, i)) =>
                /\ result'.op = "message" /\ result'.ret = "True"
                /\ BecomesComplete(i)
          /\ BecomesComplete(i) =>
                \A q \in Peers : conns[q].active => HaveWritten(q, i)
      ]_vars

\* C3 witness: a piece message from one peer has just completed a piece, and a HAVE for
\* it was written to two peers, while another piece is still incomplete.
C3_Witness ==
    /\ result.op = "message" /\ result.ret = "True"
    /\ \E i \in PieceIdx :
          /\ pieces[i].is_complete /\ i \in sha1_ok
          /\ \E q1 \in Peers, q2 \in Peers :
                /\ q1 # q2
                /\ Write(q1, Have(i), TRUE) \in sent
                /\ Write(q2, Have(i), TRUE) \in sent
          /\ \E j \in PieceIdx : ~pieces[j].is_complete

(***************************************************************************)
(* Properties of PeerManager.                                              *)
(***************************************************************************)
\* C11: retry backoff. A connect failure that brings a peer's fail count to k sets its
\* next retry time to the time of the failure plus 10 * 2^(k-1) seconds; retry_failed_peers
\* tries no peer before its retry time, and no peer whose fail count has reached 5.
C11_RetryBackoff ==
    [][/\ (Called("connect_all") \/ Called("retry_failed_peers")) =>
            \A p \in Peers :
                failed_peers'[p] > failed_peers[p] =>
                    /\ p \in attempted'
                    /\ failed_peers'[p] = failed_peers[p] + 1
                    /\ next_retry_time'[p] = now + 10 * (2 ^ (failed_peers'[p] - 1))
       /\ Called("retry_failed_peers") =>
            \A p \in attempted' : /\ next_retry_time[p] # NoTime
                                  /\ now >= next_retry_time[p]
                                  /\ failed_peers[p] < 5]_vars

\* C11 witness: retry_failed_peers has just run while a peer that has failed five times
\* had its last retry time behind it, and did not try that peer.
C11_Witness ==
    \E p \in Peers :
        /\ result.op = "retry_failed_peers"
        /\ failed_peers[p] = 5
        /\ now >= next_retry_time[p]
        /\ p \notin attempted

(***************************************************************************)
(* Properties of PieceStorage.                                             *)
(***************************************************************************)
\* C12: idempotent seeding transition. A call of switch_to_seeding on a store that is
\* already read-only changes neither the files nor the read-only flag nor the map, and
\* across every call, the first included, read returns the same bytes for every
\* offset and length; after a call the store is read-only.
C12_SeedingIdempotent ==
    [][Called("switch_to_seeding") =>
         /\ read_only => UNCHANGED <<fs, mapped, mmap, read_only>>
         /\ read_only'
         /\ mapped' # "closed"
         /\ \A global_offset \in 0..total_length, length \in 0..total_length :
                storage_read(mmap', global_offset, length)
                    = storage_read(mmap, global_offset, length)]_vars

\* C12 witness: switch_to_seeding has just been called a second time, on a single-file
\* store into which data had been written.
C12_Witness ==
    /\ result.op = "switch_to_seeding"
    /\ result.arg = <<TRUE>>
    /\ ~is_multifile
    /\ fs.final = File(mmap)
    /\ ~fs.part.exists
    /\ mmap \notin {Zeros(total_length)}

(***************************************************************************)
(* Further properties of the engine.                                       *)
(***************************************************************************)
\* the engine has dispatched a choke message of peer p in this step
ChokeDispatched(p) == now' = now /\ result'.op = "message" /\ result'.arg = <<p>>
                      /\ ~conns[p].choked /\ conns'[p].choked

\* C13: choke cancels in-flight requests. Once the engine has dispatched a choke of peer
\* p, p is recorded as choking, p has no in-flight entry, and every block that was
\* requested from p and is not yet received is unrequested again.
C13_ChokeCancelsRequests ==
    [][\A p \in Peers :
         ChokeDispatched(p) =>
             /\ conns'[p].choked
             /\ conns'[p].inflight = 0
             /\ inflight_by_peer'[p] = <<>>
             /\ \A r \in BlockRefs :
                    (asked[r] = p /\ Block(r).is_requested /\ ~Block(r).is_received)
                        => ~BlockAfter(r).is_requested]_vars

\* the connected peers whose advertised bitmap has bit i set
Advertising(i) ==
    {p \in peer_list : conns[p].active /\ conns[p].bitmap # <<>> /\ conns[p].bitmap[i + 1] = 1}

\* C14: availability tracks the swarm. In every state of the engine, for every piece
\* index i, availability[i] is the number of connected peers whose advertised bitmap
\* has bit i set.
C14_AvailabilityTracksSwarm ==
    \A i \in PieceIdx : availability[i] = Cardinality(Advertising(i))

\* C15: seeding continues. Once every piece is complete, whether completed during this
\* run or already at start, the engine's main loop keeps running: download() has not
\* returned.
C15_SeedingContinues ==
    is_finished(pieces) => phase # "done"

\* C16: pause / resume. While pause() is in force and the engine thread is at the top of
\* an iteration or waiting there, no step ticks, dispatches a message, writes to a peer,
\* closes a connection or unregisters a socket (the loop may still end, the torrent being
\* finished), and the thread leaves the wait only when the client is no longer paused; pause() itself closes no connection and unregisters
\* no socket; and a waiting thread, once the client is resumed, eventually leaves the
\* wait unless the client is paused again.
C16_PauseResume ==
    /\ [][/\ (paused /\ phase \in {"loop", "waiting"}) =>
                /\ UNCHANGED <<pieces, conns, peer_list, selector, events>>
                /\ sent' \in {sent, {}}
                /\ result' = result \/ result'.op = "exit"
                /\ phase' \in {"loop", "waiting", "done"}
          /\ (phase = "waiting" /\ phase' # "waiting") => ~paused
          /\ (~paused /\ paused') => UNCHANGED <<conns, peer_list, selector>>]_vars
    /\ (phase = "waiting" /\ ~paused) ~> (phase # "waiting" \/ paused)

\* C16 witness: the engine thread waits, paused, while a peer with a block request in
\* flight still has its connection and its socket registered.
C16_Witness ==
    /\ phase = "waiting"
    /\ paused
    /\ \E p \in selector : conns[p].active /\ conns[p].inflight > 0

(***************************************************************************)
(* Properties of shutdown.                                                 *)
(***************************************************************************)
\* C17: shutdown ordering. cleanup() stops the retry worker before it closes the peers
\* and the store; and once cleanup() has returned, the peer list is empty, no peer
\* connection is active and no retry is in progress.
C17_ShutdownOrdering ==
    /\ shutdown \in {"store_cleaned", "peers_closed"} => worker \in {"none", "exited"}
    /\ shutdown = "returned" =>
          /\ peer_list = {}
          /\ \A p \in Peers : ~conns[p].active
          /\ worker \in {"none", "exited"}


(***************************************************************************)
(* Properties of the engine's error handling.                              *)
(***************************************************************************)
\* the step handles a have or piece message of peer p whose piece index is out of range:
\* the dispatch raised, or a bit beyond the last piece was set in the peer's bitmap
BadIndexHandled(p) ==
    /\ phase = "events"
    /\ handled' = handled + 1
    /\ result'.arg = <<p>>
    /\ \/ result'.op = "raise"
       \/ \E k \in (NumPieces + 1)..Len(conns'[p].bitmap) :
             /\ conns'[p].bitmap[k] = 1
             /\ k \in 1..Len(conns[p].bitmap) => conns[p].bitmap[k] = 0

\* C18: bad-message policy. When a peer sends a have or a piece message whose piece
\* index is out of range, the engine thread keeps running its loop, the peer is dropped
\* (inactive, out of the peer list and of the selector), and no piece, block or
\* availability state changes.
C18_BadMessagePolicy ==
    [][\A p \in Peers :
          BadIndexHandled(p) =>
             /\ phase' \in {"loop", "events"}
             /\ ~conns'[p].active
             /\ p \notin peer_list'
             /\ p \notin selector'
             /\ UNCHANGED <<pieces, availability>>]_vars

\* the step is one in which the connection of peer p fails: recv_message raised
\* ConnectionError, or a send to the peer failed
ConnectionFails(p) == conns[p].active /\ ~conns'[p].active

\* C19: peer-io failure policy. Whenever a peer's connection fails, on receive or on
\* send, the handler leaves the peer inactive, unregistered from the selector and out of
\* the peer list, with availability decremented for every bit of its bitmap.
C19_PeerIoFailurePolicy ==
    [][\A p \in Peers :
          ConnectionFails(p) =>
             /\ p \notin selector'
             /\ p \notin peer_list'
             /\ availability' = remove_peer_availability(availability, conns[p])]_vars

(***************************************************************************)
(* Properties of _calculate_pieces_lengths.                                *)
(***************************************************************************)
RECURSIVE SumSeq(_)
SumSeq(q) == IF q = <<>> THEN 0 ELSE Head(q) + SumSeq(Tail(q))

\* the call of _calculate_pieces_lengths has returned
Calculated == result.op = "calculate_pieces_lengths"

\* C20: piece-length partition. For every total_length > 0 and piece_length > 0 the
\* computed piece lengths sum to total_length, every piece but the last has length
\* piece_length, and the last piece has a length in (0, piece_length].
C20_PieceLengthPartition ==
    Calculated =>
        LET total == result.arg[1]
            plen == result.arg[2]
            lengths == result.ret
        IN  /\ SumSeq(lengths) = total
            /\ Len(lengths) >= 1
            /\ \A k \in 1..(Len(lengths) - 1) : lengths[k] = plen
            /\ 0 < lengths[Len(lengths)]
            /\ lengths[Len(lengths)] <= plen

\* a call has returned several pieces, the last one shorter than piece_length
C20_Witness ==
    /\ Calculated
    /\ Len(result.ret) > 1
    /\ result.ret[Len(result.ret)] < result.arg[2]

(***************************************************************************)
(* Further properties of the Piece / PieceManager API.                     *)
(***************************************************************************)
\* block_received(offset, data) on piece i has nothing to accept: no block of the piece
\* starts at offset, or data has not the block's length, or the block is received
NothingToAccept(ps, i, offset, data) ==
    \/ \A k \in 1..NumBlocks(i) : BlockOffset(k) # offset
    \/ \E k \in 1..NumBlocks(i) :
          /\ BlockOffset(k) = offset
          /\ Len(data) # BlockLength(i, k) \/ ps[i].blocks[k].is_received

\* C21: ignored blocks change nothing. Piece.block_received returns none when no block
\* has the given offset, when the data length differs from the block's length, or when
\* the block is already received, and then nothing is written to the store and the
\* piece's blocks, _blocks_received, buffer and is_complete are unchanged.
C21_IgnoredBlocksChangeNothing ==
    [][\A i \in PieceIdx, offset \in Offsets, data \in Datas :
          (Called("block_received") /\ result'.arg = <<i, offset, data>>
             /\ NothingToAccept(pieces, i, offset, data)) =>
                /\ result'.ret = "None"
                /\ UNCHANGED <<pieces, mmap>>]_vars

\* C21 witness: a call with data for a block already received has returned none, and
\* writing that data would have changed the store
C21_Witness ==
    /\ result.op = "block_received"
    /\ result.ret = "None"
    /\ \E i \in PieceIdx, data \in Datas : \E k \in 1..NumBlocks(i) :
          /\ result.arg = <<i, BlockOffset(k), data>>
          /\ Len(data) = BlockLength(i, k)
          /\ pieces[i].blocks[k].is_received
          /\ storage_write(mmap, i, BlockOffset(k), data) # mmap

\* block r is due at a tick: its piece is incomplete, it is requested and not
\* received, and its request is at least REQUEST_TIMEOUT old
Due(r) ==
    /\ ~pieces[r[1]].is_complete
    /\ Block(r).is_requested
    /\ ~Block(r).is_received
    /\ Block(r).request_time # NoTime
    /\ now - Block(r).request_time >= REQUEST_TIMEOUT

\* C22: request timeout. tick() resets to unrequested (is_requested false, request_time
\* cleared) exactly the blocks of incomplete pieces that are requested, not received and
\* whose request is at least REQUEST_TIMEOUT old, and changes nothing else of any piece;
\* hence a request that is not answered leads to the block being schedulable again (the
\* clock of the model stops at MaxTime: for requests made early enough to time out).
C22_RequestTimeout ==
    /\ [][Called("tick") =>
            /\ \A r \in BlockRefs :
                  BlockAfter(r) = IF Due(r)
                                  THEN [Block(r) EXCEPT !.is_requested = FALSE,
                                                        !.request_time = NoTime]
                                  ELSE Block(r)
            /\ \A i \in PieceIdx :
                  /\ pieces'[i].is_complete = pieces[i].is_complete
                  /\ pieces'[i].buffer = pieces[i].buffer
                  /\ pieces'[i].blocks_received = pieces[i].blocks_received]_vars
    /\ \A r \in BlockRefs :
          (Block(r).is_requested /\ ~Block(r).is_received
              /\ Block(r).request_time + REQUEST_TIMEOUT <= MaxTime)
             ~> (Block(r).is_received \/ (~Block(r).is_requested /\ ~Block(r).is_received))

\* C22 witness: tick() has just run at a time when requests made at time 0 are due, and
\* the pieces hold a block that is schedulable, a received block and a block requested at
\* the time of the tick
C22_Witness ==
    /\ result.op = "tick"
    /\ now >= REQUEST_TIMEOUT
    /\ \E r \in BlockRefs : ~Block(r).is_requested /\ ~Block(r).is_received
    /\ \E r \in BlockRefs : Block(r).is_received
    /\ \E r \in BlockRefs : Block(r).is_requested /\ ~Block(r).is_received
                              /\ Block(r).request_time = now

\* no candidate piece of minimum availability has a free block
RarestExhausted(bitmap) ==
    \A i \in PieceIdx : (Candidate(i, bitmap) /\ Rarer(i, bitmap)) => ~HasFreeBlock(i)

\* C23: rarest-first fallback. When every minimum-availability candidate piece has no
\* free block, next_request_rarest_first returns a free block of some other candidate
\* piece (not complete, in the peer's bitmap) if there is one; and it returns none
\* exactly when no candidate piece has a free block.
C23_RarestFirstFallback ==
    [][ Called("next_request_rarest_first") =>
          /\ (RarestExhausted(result'.arg)
                 /\ \E i \in PieceIdx : Candidate(i, result'.arg) /\ HasFreeBlock(i)) =>
                /\ result'.block \in BlockRefs
                /\ Candidate(result'.block[1], result'.arg)
                /\ ~Rarer(result'.block[1], result'.arg)
                /\ ~Block(result'.block).is_requested /\ ~Block(result'.block).is_received
          /\ result'.block = <<>> <=>
                ~\E i \in PieceIdx : Candidate(i, result'.arg) /\ HasFreeBlock(i)
      ]_pmvars

\* C23 witness: the call returned a block of a piece while a rarer piece of the peer's
\* bitmap, not complete, has no free block left
C23_Witness ==
    /\ result.op = "next_request_rarest_first"
    /\ result.block \in BlockRefs
    /\ \E j \in PieceIdx :
          /\ Candidate(j, result.arg) /\ ~HasFreeBlock(j)
          /\ Rarer(j, result.arg)
          /\ availability[j] < availability[result.block[1]]

(***************************************************************************)
(* Properties of uploading.                                                *)
(***************************************************************************)
\* the step wrote a PIECE message to peer p
PieceWritten(p) == now' = now /\ \E w \in sent' : w.to = p /\ HasId(w.msg, 7)

\* the step dispatched message m of peer p
DispatchedFrom(p, m) == Called("message") /\ result'.arg = <<p, m>>

\* request m of peer p meets the conditions for being served at the time of its dispatch
Servable(p, m) ==
    LET index == unpack_u32(Slice(m.payload, 0, 4))
    IN  /\ ~conns[p].remote_choked
        /\ index < NumPieces
        /\ pieces[index].is_complete

\* C24: upload gate. The engine sends a PIECE message to a peer only in the dispatch of
\* a REQUEST from that peer made while we are not choking the peer, with an index in
\* range and a complete piece; a REQUEST failing any of these produces no PIECE (and
\* no store read: the block read from the store goes into the PIECE and nowhere else).
C24_UploadGate ==
    [][\A p \in Peers :
          /\ PieceWritten(p) =>
                \E m \in UploadMsgs :
                    DispatchedFrom(p, m) /\ HasId(m, 6) /\ Servable(p, m)
          /\ \A m \in UploadMsgs :
                (DispatchedFrom(p, m) /\ HasId(m, 6) /\ ~Servable(p, m)) =>
                    \A w \in sent' : ~HasId(w.msg, 7)]_vars

\* C24 witness: a REQUEST for a block of a complete piece has just been dispatched while
\* we were choking the peer, and no PIECE was written
C24_Witness ==
    /\ result.op = "message"
    /\ \E p \in Peers, m \in UploadMsgs :
          /\ result.arg = <<p, m>>
          /\ HasId(m, 6)
          /\ unpack_u32(Slice(m.payload, 0, 4)) < NumPieces
          /\ pieces[unpack_u32(Slice(m.payload, 0, 4))].is_complete
          /\ conns[p].remote_choked
    /\ \A w \in sent : ~HasId(w.msg, 7)

\* C25: interested leads to service. In the dispatch of an interested message from a
\* peer it is choking, the engine sends UNCHOKE and from then on treats the peer as
\* unchoked (remote_choked is false once the UNCHOKE is written); and a REQUEST from a
\* peer whose last interest message was interested, for an in-range block of a complete
\* piece, is answered with a PIECE.
C25_InterestedLeadsToService ==
    [][\A p \in Peers :
          /\ (DispatchedFrom(p, Interested) /\ conns[p].remote_choked) =>
                /\ \E w \in sent' : w.to = p /\ HasId(w.msg, 1)
                /\ (\E w \in sent' : w.to = p /\ HasId(w.msg, 1) /\ w.ok) =>
                       ~conns'[p].remote_choked
          /\ \A m \in UploadMsgs :
                (/\ DispatchedFrom(p, m) /\ HasId(m, 6)
                 /\ conns[p].remote_interested
                 /\ unpack_u32(Slice(m.payload, 0, 4)) < NumPieces
                 /\ pieces[unpack_u32(Slice(m.payload, 0, 4))].is_complete) =>
                    PieceWritten(p)]_vars

(***************************************************************************)
(* Properties of completion.                                               *)
(***************************************************************************)
\* C26: completion transition. In the dispatch of the piece message that makes the last
\* incomplete piece complete, the engine switches the store to read-only seeding mode
\* and stamps completed_on; neither happens while a piece is still incomplete.
C26_CompletionTransition ==
    /\ [][(Called("message") /\ ~is_finished(pieces) /\ is_finished(pieces')) =>
             (read_only' /\ completed_on' # NoTime)]_vars
    /\ [](~is_finished(pieces) => (~read_only /\ completed_on = NoTime))

(***************************************************************************)
(* Properties of the order and delivery of a peer's messages. The engine   *)
(* dispatches every message recv_message returns, at once: emitted is the  *)
(* sequence of the messages dispatched.                                    *)
(***************************************************************************)
\* the messages of the peer in the order their bytes arrive
Arriving == OneShotParse(stream)
\* the bytes sock.recv has returned so far
Received == SubSeq(stream, 1, Len(stream) - Len(wire))

\* C27: per-peer ordering. The messages of a peer are dispatched in the order in which
\* their bytes arrived: every step dispatches nothing or exactly the next message of
\* the stream, so no message is dispatched twice, skipped or reordered.
C27_PerPeerOrdering ==
    [][\/ emitted' = emitted
       \/ /\ Len(emitted) < Len(Arriving)
          /\ emitted' = Append(emitted, Arriving[Len(emitted) + 1])]_vars

\* C27 witness: two different messages of one stream have been dispatched
C27_Witness ==
    /\ Len(emitted) >= 2
    /\ emitted[1] # emitted[2]
    /\ emitted = Arriving

\* C28: no stranded messages. Every complete message received into the peer's buffer is
\* eventually dispatched: once the bytes received hold k complete messages, k messages
\* get dispatched.
C28_NoStrandedMessages ==
    \A k \in 1..MaxMsgs :
        (Len(OneShotParse(Received)) >= k) ~> (Len(emitted) >= k)

(***************************************************************************)
(* Properties of the peer set while the engine runs.                       *)
(***************************************************************************)
\* the retry worker has reconnected peer p and the engine has not registered it
Unregistered(p) == p \in peer_list /\ conns[p].active /\ p \notin selector

\* C29: reconnected peers are picked up. A peer that the retry worker reconnects is
\* eventually registered with the engine's selector while the engine loop is running
\* (unless the loop ends or the peer is lost again first; the model follows the loop
\* for MaxEvents events).
C29_ReconnectedPeersPickedUp ==
    \A p \in Peers :
        (Unregistered(p) /\ phase \in {"loop", "events"})
           ~> \/ p \in selector
              \/ ~Unregistered(p)
              \/ phase \notin {"loop", "events"}
              \/ handled >= MaxEvents

\* the step is taken by the thread that runs download(): the engine task
EngineTask ==
    \/ \E alive \in SUBSET Peers : \E okset \in SUBSET alive : Download(alive, okset)
    \/ LoopExit
    \/ \E batch \in SUBSET selector : LoopSelect(batch)
    \/ HandleEvent

\* C30: single-writer discipline. Every change of the selector's registration set and
\* of the peer list is made by the torrent's engine task; no other thread (retry
\* worker, reannounce handler) registers a socket or adds or removes a peer while the
\* engine loop runs.
C30_SingleWriter ==
    [][(peer_list' # peer_list \/ selector' # selector) => EngineTask]_vars

\* C31: download accounting. A PieceManager.block_received call that returns True or
\* False adds exactly len(data) to downloaded_bytes, a call that returns None leaves
\* it unchanged, and no operation (tick, on_choke, the reset after a hash failure)
\* decreases it.
C31_DownloadAccounting ==
    [][/\ (Called("block_received") /\ result'.ret \in {"True", "False"}) =>
              downloaded_bytes' = downloaded_bytes + Len(result'.arg[3])
       /\ (Called("block_received") /\ result'.ret = "None") =>
              downloaded_bytes' = downloaded_bytes
       /\ downloaded_bytes' >= downloaded_bytes]_vars

\* a block was accepted, the piece failed its hash check and was reset, and the
\* bytes of its blocks stay counted
C31_Witness ==
    /\ result.op = "block_received" /\ result.ret = "False"
    /\ \E i \in PieceIdx :
          /\ result.arg[1] = i
          /\ NumBlocks(i) > 1
          /\ pieces[i].blocks_received = 0
          /\ downloaded_bytes >= PieceLen(i)

\* the trackers whose announce succeeded, and those whose announce raised, in the
\* get_all_peers call that has returned
Succeeded == {t \in Trackers : outcomes[t].kind = "result"}
Raised == {t \in Trackers : outcomes[t].kind = "raised"}
SucceededEndpoints == UNION {{outcomes[t].peers[k] : k \in 1..Len(outcomes[t].peers)} : t \in Succeeded}
SucceededIntervals == {outcomes[t].interval : t \in Succeeded}

\* exactly the trackers that raised are in status error, with the message recorded, and
\* the returned peers are those of the trackers that succeeded, each (ip, port) once
FailureIsolated ==
    /\ \A t \in Raised : /\ trackers[t].last_status = "error"
                          /\ trackers[t].last_msg = outcomes[t].msg
    /\ \A t \in Succeeded : /\ trackers[t].last_status = "working"
                             /\ trackers[t].last_msg = "None"
    /\ {announce.all_peers[k] : k \in 1..Len(announce.all_peers)} = SucceededEndpoints
    /\ \A j, k \in 1..Len(announce.all_peers) :
          announce.all_peers[j] = announce.all_peers[k] => j = k
    /\ Succeeded = {} => (announce.all_peers = <<>> /\ announce.min_interval = fallback_interval)

C33_RetryOutcome ==
    [][Called("retry_failed_peers") =>
          /\ \A p \in RetryList :
                IF conns'[p].active
                THEN /\ p \in peer_list'
                     /\ failed_peers'[p] = 0
                     /\ next_retry_time'[p] = NoTime
                ELSE /\ p \notin peer_list'
                     /\ failed_peers'[p] = failed_peers[p] + 1
                     /\ next_retry_time'[p] # NoTime
          /\ \A p \in Peers \ RetryList :
                /\ failed_peers'[p] = failed_peers[p]
                /\ next_retry_time'[p] = next_retry_time[p]
                /\ (p \in peer_list') = (p \in peer_list)
          /\ RetryList = {} => peer_list' = peer_list]_vars

\* a retry pass in which one peer reconnected and another failed again
C33_Witness ==
    /\ result.op = "retry_failed_peers"
    /\ \E p, q \in attempted :
          /\ p \in peer_list /\ failed_peers[p] = 0 /\ next_retry_time[p] = NoTime
          /\ q \notin peer_list /\ failed_peers[q] >= 2

\* the step wrote a REQUEST for block r to the socket of peer p and the send succeeded
RequestWritten(p, r) ==
    Write(p, Request(r[1], BlockOffset(r[2]), BlockLength(r[1], r[2])), TRUE) \in sent'

\* C34: requested means sent. Whenever the engine leaves a block marked requested after
\* scheduling it for a peer, a REQUEST for that block has been sent to that peer; when
\* send_request returns false the block goes back to the unrequested state.
C34_RequestedMeansSent ==
    [][\A p \in Peers, r \in BlockRefs :
          (Called("message") /\ result'.arg = <<p>> /\ result'.block = r
              /\ BlockAfter(r).is_requested) => RequestWritten(p, r)]_vars

\* the blocks whose last REQUEST went to peer p and that are still requested and not
\* received
Outstanding(p) ==
    {r \in BlockRefs : asked[r] = p /\ Block(r).is_requested /\ ~Block(r).is_received}

\* C35: in-flight counter consistency. For every peer the in-flight counter never
\* exceeds the number of blocks that were requested from that peer and are still
\* marked requested and not received; a request that tick() times out releases its slot.
C35_InflightConsistency ==
    \A p \in Peers : conns[p].inflight <= Cardinality(Outstanding(p))

\* the bytes of piece i in the store
StoredPiece(mm, i) == storage_read(mm, i * piece_length, PieceLen(i))

\* C36: completion is monotonic. Once a piece is complete, no later piece message
\* (duplicate, late or unsolicited), tick, choke or scheduling sets is_complete back to
\* false, hands out one of its blocks for request, or changes the bytes of its range
\* in the store.
C36_CompletionMonotonic ==
    [][\A i \in PieceIdx :
          pieces[i].is_complete =>
             /\ pieces'[i].is_complete
             /\ ~(result'.block \in BlockRefs /\ result'.block[1] = i /\ result' # result)
             /\ \A k \in 1..NumBlocks(i) : pieces'[i].blocks[k] = pieces[i].blocks[k]
             /\ StoredPiece(mmap', i) = StoredPiece(mmap, i)]_vars

\* a piece message with wrong data for a block of a complete piece has just been
\* dispatched while another piece is still incomplete
C36_Witness ==
    /\ result.op = "message"
    /\ Len(result.arg) = 2
    /\ HasId(result.arg[2], 7)
    /\ \E r \in BlockRefs :
          /\ result.arg[2] = PieceMsg(r[1], BlockOffset(r[2]), Zeros(BlockLength(r[1], r[2])))
          /\ pieces[r[1]].is_complete
          /\ result.ret = "None"
          /\ StoredPiece(mmap, r[1]) = PieceContent(r[1])
    /\ ~is_finished(pieces)

\* C37: finished implies seeding mode. In every state after the construction of the
\* engine (verify pass, or resume of a torrent known to be finished) and between
\* message dispatches, if every piece is complete the store is in read-only seeding
\* mode.
C37_FinishedImpliesSeeding == is_finished(pieces) => read_only

\* the step is one of the engine task
EngineStep == phase' # phase \/ handled' # handled \/ events' # events

\* C38: remove is safe against the running engine. After the remove command (pause,
\* then cleanup) has returned, the engine task performs no further read or write on
\* the piece store and no further send on a peer socket, at whatever point of its
\* loop iteration it was when remove was called.
C38_RemoveIsSafe ==
    [][(shutdown = "returned" /\ EngineStep) =>
          /\ ~(phase = "dispatch" /\ StoresInHand)
          /\ sent' = {}]_vars

\* the cooperative peer is connected, has advertised every piece and has unchoked us
Cooperating ==
    /\ conns[GoodPeer].active
    /\ GoodPeer \in selector
    /\ ~conns[GoodPeer].choked
    /\ conns[GoodPeer].bitmap # <<>>
    /\ \A i \in PieceIdx : conns[GoodPeer].bitmap[i + 1] = 1

\* some block is marked requested and not received: a request is outstanding
SomeRequested == \E r \in BlockRefs : Block(r).is_requested /\ ~Block(r).is_received

\* C39: download progress. If the engine is not paused and a connected peer has
\* advertised every piece, has unchoked us and answers every request with the right
\* data, the torrent eventually finishes, whatever the other peers do. Checked in the
\* weaker form: from such a state the torrent finishes, or the peer is no longer
\* connected, or at least a request is still outstanding.
C39_DownloadProgress ==
    (Cooperating /\ phase \in {"loop", "events"})
        ~> (is_finished(pieces) \/ ~conns[GoodPeer].active \/ SomeRequested)

\* the number of blocks of piece p marked received
ReceivedCount(p) == Cardinality({k \in 1..Len(p.blocks) : p.blocks[k].is_received})

\* C40: received-counter consistency. For every piece that is not complete, after any
\* sequence of next_block, block_received, tick and on_choke operations, _blocks_received
\* equals the number of the piece's blocks with is_received true; so a block_received
\* call that accepts a block runs the hash check (the piece becomes complete, or is
\* reset to no block received) exactly when every other block was already received.
C40_ReceivedCounter ==
    /\ [](\A i \in PieceIdx :
            ~pieces[i].is_complete => pieces[i].blocks_received = ReceivedCount(pieces[i]))
    /\ [][\A i \in PieceIdx :
            (Called("block_received") /\ result'.arg[1] = i /\ result'.ret # "None"
                /\ ~pieces[i].is_complete)
            => ((pieces'[i].is_complete \/ pieces'[i].blocks_received = 0)
                  <=> \A k \in 1..Len(pieces[i].blocks) :
                          k # FindBlock(i, result'.arg[2]) => pieces[i].blocks[k].is_received)]_vars

\* a block_received call has just failed the hash check of a piece: the piece is back
\* to no block received, with its counter at zero
C40_Witness ==
    /\ result.op = "block_received"
    /\ result.ret = "False"
    /\ \E i \in PieceIdx :
          /\ result.arg[1] = i
          /\ ~pieces[i].is_complete
          /\ pieces[i].blocks_received = 0
          /\ ReceivedCount(pieces[i]) = 0

====
